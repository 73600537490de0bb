------------------------------ MODULE MCRepConf ------------------------------
(* Model of RepConf for TLC: a server rooted at /srv, the five element     *)
(* names the handler dispatches on (one written in upper case), one text   *)
(* token besides whitespace, and repository names that stay inside,       *)
(* climb out of, equal, or jump over the repository directory.             *)
EXTENDS RepConf

MCTags == {"server", "Repository", "url", "title", "description"}

MCLower == [t \in MCTags |-> IF t = "Repository" THEN "repository" ELSE t]

MCTexts == {"ws", "u"}

MCRepNames ==
    { Path(FALSE, <<"a">>),               \* name="a"
      Path(FALSE, <<"..", "x">>),         \* name="../x"
      Path(FALSE, <<"a", "..">>),         \* name="a/.."  (repository/ itself)
      Path(TRUE,  <<"srv", "repository", "b">>) } \* name="/srv/repository/b"

MCRoot == <<"srv">>
=============================================================================
