----------------------------- MODULE Installer -----------------------------
(***************************************************************************)
(* The installation together with the page that reports it: the setup      *)
(* threads of module Setup, and the threads of WebviewBackend::build in    *)
(* src/src/android/backend/webview.rs between their channel and the page   *)
(* of src/assets/setup-progress.html.                                      *)
(*                                                                         *)
(* An acceptor thread takes one connection at a time; each accepted one    *)
(* gets a client thread that holds the lock of the receiver while it       *)
(* forwards messages, stamping each with the progress counter as it finds  *)
(* it then.  The acceptor panics, if it does, with the lock of             *)
(* active_client held, so a dead acceptor means a poisoned lock.           *)
(***************************************************************************)
EXTENDS Setup, FiniteSets

CONSTANT MaxPages       \* bound: pages loaded in one session

ASSUME MaxPagesAssumption == MaxPages \in Nat

Page == 1 .. MaxPages

VARIABLES
    acceptor,   \* the thread that owns the listening socket
    active,     \* active_client: the page it holds, 0 for None
    conn,       \* the connection of a page
    client,     \* the client thread of a page
    taken,      \* messages taken out of the channel so far
    stamp,      \* the progress value a client thread has read
    page        \* what a page shows: the message's number and the progress

web == <<acceptor, active, conn, client, taken, stamp, page>>
all == <<vars, web>>

Blank == [number |-> 0, progress |-> 0]

\* Client threads that hold an Arc of the receiver.
Live == {"waiting", "taking", "reading", "sending"}
\* Those that hold its lock, for the whole of their loop.
Holding == {"taking", "reading", "sending"}

WebGone ==
    /\ acceptor' = "off" /\ active' = 0
    /\ conn' = [p \in Page |-> "none"] /\ client' = [p \in Page |-> "none"]
    /\ taken' = 0 /\ stamp' = 0
    /\ page' = [p \in Page |-> Blank]

InstallerInit ==
    /\ Init
    /\ acceptor = "off" /\ active = 0
    /\ conn = [p \in Page |-> "none"] /\ client = [p \in Page |-> "none"]
    /\ taken = 0 /\ stamp = 0
    /\ page = [p \in Page |-> Blank]

\* A step of module Setup.  build() starts the acceptor; the end of the
\* process takes all of this with it.
WebFrame ==
    IF mainPc' = "off" THEN WebGone
    ELSE /\ acceptor' = IF mainPc = "building" /\ mainPc' = "webview"
                        THEN "listening" ELSE acceptor
         /\ UNCHANGED <<active, conn, client, taken, stamp, page>>

InstallStep == SetupStep /\ WebFrame

-----------------------------------------------------------------------------
setupVars == <<disk, system, caller, worker, count, progress, sent>>

\* The receiver lives as long as a thread that holds an Arc of it.
ReceiverKept == receiver' = (receiver /\ (acceptor' # "dead"
                                \/ \E p \in Page : client'[p] \in Live))

\* The page is loaded and its script opens the socket.
PageOpens(p) ==
    /\ mainPc = "webview" /\ conn[p] = "none"
    /\ \A q \in Page : q < p => conn[q] \in {"rejected", "closed"}
    /\ conn' = [conn EXCEPT ![p] = "requested"]
    /\ UNCHANGED <<vars, acceptor, active, client, taken, stamp, page>>

\* The page is gone; nobody on this side notices before the next message.
PageCloses(p) ==
    /\ conn[p] = "open"
    /\ conn' = [conn EXCEPT ![p] = "closed"]
    /\ UNCHANGED <<vars, acceptor, active, client, taken, stamp, page>>

\* Mutant of Accept: a second client would replace the first.
Accept_Always(p) ==
    /\ acceptor = "listening" /\ conn[p] = "requested"
    /\ active' = p
    /\ conn' = [conn EXCEPT ![p] = "open"]
    /\ client' = [client EXCEPT ![p] = "waiting"]
    /\ UNCHANGED <<vars, acceptor, taken, stamp, page>>

Accept(p) ==
    /\ acceptor = "listening" /\ conn[p] = "requested" /\ active = 0
    /\ active' = p
    /\ conn' = [conn EXCEPT ![p] = "open"]
    /\ client' = [client EXCEPT ![p] = "waiting"]
    /\ UNCHANGED <<vars, acceptor, taken, stamp, page>>

Reject(p) ==
    /\ acceptor = "listening" /\ conn[p] = "requested" /\ active # 0
    /\ conn' = [conn EXCEPT ![p] = "rejected"]
    /\ UNCHANGED <<vars, acceptor, active, client, taken, stamp, page>>

\* reject(), accept() or peer_addr() fails and is unwrapped.
AcceptorPanics(p) ==
    /\ acceptor = "listening" /\ conn[p] = "requested" /\ Fault
    /\ acceptor' = "dead"
    /\ conn' = [conn EXCEPT ![p] = "closed"]
    /\ UNCHANGED <<setupVars, active, client, taken, stamp, page>>
    /\ ReceiverKept

\* receiver.lock(), held until the loop over its messages ends.
ClientLock(p) ==
    /\ client[p] = "waiting"
    /\ \A q \in Page : client[q] \notin Holding
    /\ client' = [client EXCEPT ![p] = "taking"]
    /\ UNCHANGED <<vars, acceptor, active, conn, taken, stamp, page>>

\* Mutant of ClientTake: only the newest message.
ClientTake_Newest(p) ==
    /\ client[p] = "taking" /\ taken < Len(sent)
    /\ taken' = Len(sent)
    /\ client' = [client EXCEPT ![p] = "reading"]
    /\ UNCHANGED <<vars, acceptor, active, conn, stamp, page>>

ClientTake(p) ==
    /\ client[p] = "taking" /\ taken < Len(sent)
    /\ taken' = taken + 1
    /\ client' = [client EXCEPT ![p] = "reading"]
    /\ UNCHANGED <<vars, acceptor, active, conn, stamp, page>>

ClientRead(p) ==
    /\ client[p] = "reading"
    /\ stamp' = progress
    /\ client' = [client EXCEPT ![p] = "sending"]
    /\ UNCHANGED <<vars, acceptor, active, conn, taken, page>>

\* handleWebSocketMessage on the page of the active client.
ClientSend(p) ==
    /\ client[p] = "sending" /\ acceptor # "dead" /\ conn[active] = "open"
    /\ page' = [page EXCEPT ![active] = [number |-> taken, progress |-> stamp]]
    /\ client' = [client EXCEPT ![p] = "taking"]
    /\ UNCHANGED <<vars, acceptor, active, conn, taken, stamp>>

\* Mutant of ClientSendLost: the failed client would not be forgotten.
ClientSendLost_Kept(p) ==
    /\ client[p] = "sending" /\ acceptor # "dead" /\ conn[active] # "open"
    /\ client' = [client EXCEPT ![p] = "done"]
    /\ UNCHANGED <<vars, acceptor, active, conn, taken, stamp, page>>

\* The page is gone: either the write fails, the client is forgotten and the
\* thread ends, or it still goes into the socket's buffer.  Either way the
\* message in hand is lost.
ClientSendLost(p) ==
    /\ client[p] = "sending" /\ acceptor # "dead" /\ conn[active] # "open"
    /\ \/ /\ active' = 0
          /\ client' = [client EXCEPT ![p] = "done"]
       \/ /\ client' = [client EXCEPT ![p] = "taking"]
          /\ UNCHANGED active
    /\ UNCHANGED <<vars, acceptor, conn, taken, stamp, page>>

\* active_client.lock().unwrap() on the poisoned lock.
ClientPanics(p) ==
    /\ client[p] = "sending" /\ acceptor = "dead"
    /\ client' = [client EXCEPT ![p] = "done"]
    /\ UNCHANGED <<setupVars, bounds, acceptor, active, conn, taken, stamp, page>>
    /\ ReceiverKept

\* The iterator ends: nothing is left and every Sender is dropped, those of
\* the pipeline thread and of the worker.  active_client is not cleared.
SendersGone == pipePc \in {"finished", "failed", "panicked"}

\* Mutant of ClientEnds: what is still queued would be dropped.
ClientEnds_Early(p) ==
    /\ client[p] = "taking" /\ SendersGone
    /\ client' = [client EXCEPT ![p] = "done"]
    /\ UNCHANGED <<setupVars, bounds, acceptor, active, conn, taken, stamp, page>>
    /\ ReceiverKept

ClientEnds(p) ==
    /\ client[p] = "taking" /\ taken = Len(sent) /\ SendersGone
    /\ client' = [client EXCEPT ![p] = "done"]
    /\ UNCHANGED <<setupVars, bounds, acceptor, active, conn, taken, stamp, page>>
    /\ ReceiverKept

ClientStep(p) ==
    \/ ClientLock(p) \/ ClientTake(p) \/ ClientRead(p) \/ ClientSend(p)
    \/ ClientSendLost(p) \/ ClientPanics(p) \/ ClientEnds(p)

AcceptorStep == \E p \in Page : Accept(p) \/ Reject(p)

InstallerNext ==
    \/ InstallStep
    \/ AcceptorStep
    \/ \E p \in Page : \/ PageOpens(p) \/ PageCloses(p)
                       \/ AcceptorPanics(p) \/ ClientStep(p)

\* As in Setup, and the threads of the page's server are scheduled.
InstallerFairness ==
    /\ WF_all(MainStep /\ WebFrame) /\ WF_all(PipeStep /\ WebFrame)
    /\ WF_all(WorkerStep /\ WebFrame) /\ WF_all(PacmanStep /\ WebFrame)
    /\ WF_all(AcceptorStep)
    /\ \A p \in Page : WF_all(ClientStep(p))

InstallerSpec == InstallerInit /\ [][InstallerNext]_all /\ InstallerFairness

-----------------------------------------------------------------------------
(* Properties.                                                             *)

\* Variables range over the states of the threads and of the page.
InstallerTypeOK ==
    /\ acceptor \in {"off", "listening", "dead"}
    /\ active \in 0 .. MaxPages
    /\ conn \in [Page -> {"none", "requested", "open", "rejected", "closed"}]
    /\ client \in [Page -> Live \cup {"none", "done"}]
    /\ taken \in 0 .. Len(sent)
    /\ stamp \in {0, 20, 40, 60, 80, 100}
    /\ page \in [Page -> [number : 0 .. Len(sent),
                          progress : {0, 20, 40, 60, 80, 100}]]

\* What a page shows is true: past a stage's share the stage is done, and so
\* at 100 percent, where the page tells the user that the installation is
\* finished, although the counter is read long after the message was sent.
PageHonest ==
    \A p \in Page, s \in 1 .. 4 : page[p].progress > Percent(s) => Post(s)

\* However pages come and go, at most one thread takes messages, and it is
\* the one whose page is the active client.
OneReader ==
    \A p, q \in Page :
        /\ client[p] \in Holding /\ client[q] \in Holding => p = q
        /\ client[p] \in Holding => active = p

\* A page that has shown a message shows the very next one after it: none is
\* skipped, repeated or overtaken while the page stays connected; nor does
\* the bar on it ever go back.
PageInOrder ==
    [][\A p \in Page :
          page'[p] # page[p] /\ mainPc' # "off" =>
              /\ page[p].number # 0 => page'[p].number = page[p].number + 1
              /\ page'[p].progress >= page[p].progress]_all

\* A message of the installation does not wait for ever while a page is there.
MessagesDrain ==
    \A n \in 1 .. 3 :
        (Len(sent) >= n /\ taken < n /\ active # 0) ~>
            (taken >= n \/ active = 0 \/ acceptor = "dead" \/ mainPc = "off")

\* The page that was there first and stays is told how it ended: with the
\* last message at 100 percent, or with the error that stopped the pipeline.
OutcomeShown ==
    (pipePc \in {"finished", "failed"} /\ conn[1] = "open") ~>
        \/ /\ page[1].number = Len(sent)
           /\ pipePc = "finished" => page[1].progress = 100
        \/ conn[1] # "open" \/ acceptor = "dead" \/ mainPc = "off"
=============================================================================
