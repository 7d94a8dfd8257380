---------------------------- MODULE MCConfigFile ----------------------------
(***************************************************************************)
(* Files for the runs of ConfigFile: every short one, and a telling one.   *)
(***************************************************************************)
EXTENDS ConfigFile

\* Two groups, one setting of each that matters, plain and on trial, and one
\* value that is not TOML.
MCLines == {Header("user"), Header("command"),
            Set("username", "mine"), Try("username", "new"),
            Set("check", "mine"), Try("check", "new"), Set("check", "bad")}

\* All files of up to four lines.
ShortFiles == UNION {[1 .. n -> MCLines] : n \in 0 .. 4}

\* A user who tries a name without having one, beside a command of their own.
TriedName ==
    { << Header("user"), Try("username", "new"),
         Header("command"), Set("check", "mine") >> }

MCValues == {"mine", "new"}
=============================================================================
