------------------------------ MODULE CatalogLoad ------------------------------
(***************************************************************************)
(* What provisioning.init() promises the scripts that call it, stated     *)
(* without SAX callbacks: while the configuration document is read, the   *)
(* repositories it declares are seen one after the other; the catalog is  *)
(* then published in one step, as the declared repositories that lie     *)
(* inside the sandbox, in document order, each with the directory its     *)
(* name leads to, and it never changes afterwards.  Reading may fail at   *)
(* any point, before or after publication; it ends normally only after    *)
(* publication.                                                            *)
(***************************************************************************)
EXTENDS Sequences

CONSTANTS
    RepNames,       \* repository names a document may declare
    Location(_),    \* the directory a repository name leads to
    InSandbox(_)    \* the name leads strictly below <root>/repository/

VARIABLES
    doc,        \* the repository names declared so far
    content,    \* the published catalog: [name, path] records
    published,  \* the catalog has been published
    status      \* "parsing", "done" or "failed"

vars == <<doc, content, published, status>>

Catalog(d) ==
    LET inside == SelectSeq(d, InSandbox)
    IN  [i \in DOMAIN inside |-> [name |-> inside[i], path |-> Location(inside[i])]]

Init ==
    /\ doc = <<>>
    /\ content = <<>>
    /\ published = FALSE
    /\ status = "parsing"

Declare ==
    /\ status = "parsing" /\ ~published
    /\ \E n \in RepNames : doc' = Append(doc, n)
    /\ UNCHANGED <<content, published, status>>

Publish ==
    /\ status = "parsing" /\ ~published
    /\ published' = TRUE
    /\ content' = Catalog(doc)
    /\ UNCHANGED <<doc, status>>

Finish ==
    /\ status = "parsing" /\ published
    /\ status' = "done"
    /\ UNCHANGED <<doc, content, published>>

Fail ==
    /\ status = "parsing"
    /\ status' = "failed"
    /\ UNCHANGED <<doc, content, published>>

Next == Declare \/ Publish \/ Finish \/ Fail

Spec == Init /\ [][Next]_vars
=============================================================================
