------------------------------- MODULE RepConf -------------------------------
(***************************************************************************)
(* The repository configuration loader of the discovery server:           *)
(* provisioning.init() running xml.sax.parse over repconf.xml with a       *)
(* RepXMLHandler.  The SAX parser is the environment: it delivers          *)
(* startElement / characters / endElement callbacks for some document, or *)
(* raises a parse error at any point, which init() catches.  Each callback *)
(* is one action; the handler's fields and the global SERVER are the      *)
(* state.                                                                  *)
(*                                                                         *)
(* Data is abstracted: character data is a sequence of text tokens (WS is *)
(* whitespace), a repository name is a path [abs, segs], a URL is the     *)
(* pair of the base it was joined to and the repository name.             *)
(***************************************************************************)
EXTENDS Provisioning

CONSTANTS
    Tags,        \* element names that may occur in the document
    Lower,       \* Lower[t]: t.lower()
    Texts,       \* character-data tokens
    WS,          \* the whitespace token, removed by strip()
    RepNames,    \* values of the name attribute of <repository> (paths)
    MaxDepth,    \* deepest element nesting explored
    MaxChars,    \* most character tokens accumulated in self.chars
    MaxReps      \* most <repository> elements in one document

ASSUME WS \in Texts /\ Lower \in [Tags -> STRING]

VARIABLES
    hpath,    \* RepXMLHandler.path: lower-cased names of the open elements
    chars,    \* RepXMLHandler.chars
    rep,      \* RepXMLHandler.rep: the Repository under construction
    reps,     \* RepXMLHandler.reps
    server,   \* the global SERVER
    status,   \* "parsing", "done" (parse returned), "failed" (exception caught)
    rooted,   \* the document element has been opened (history)
    docReps   \* names of the <server><repository> elements opened (history)

vars == <<hpath, chars, rep, reps, server, status, rooted, docReps>>

-----------------------------------------------------------------------------
\* str.strip() on the accumulated character data.
Strip(s) ==
    LET keep == {i \in DOMAIN s : s[i] # WS}
    IN  IF keep = {} THEN <<>> ELSE SubSeq(s, Min(keep), Max(keep))

-----------------------------------------------------------------------------
(* init(): SERVER = Server(); repxml = RepXMLHandler()                    *)

Init ==
    /\ hpath = <<>>
    /\ chars = <<>>
    /\ rep = NewRepository
    /\ reps = <<>>
    /\ server = NewServer
    /\ status = "parsing"
    /\ rooted = FALSE
    /\ docReps = <<>>

\* RepXMLHandler.startElement.  The parser delivers one document element
\* only; attrs.get("name", "") is read for <server><repository>.
StartElement(t) ==
    /\ status = "parsing"
    /\ hpath = <<>> => ~rooted
    /\ Len(hpath) < MaxDepth
    /\ rooted' = TRUE
    /\ hpath' = Append(hpath, Lower[t])
    /\ IF hpath' = <<"server", "repository">>
         THEN /\ Len(docReps) < MaxReps
              /\ \E n \in RepNames :
                   /\ rep' = [rep EXCEPT !.name = n]
                   /\ docReps' = Append(docReps, n)
         ELSE UNCHANGED <<rep, docReps>>
    /\ UNCHANGED <<chars, reps, server, status>>

\* RepXMLHandler.characters
Characters ==
    /\ status = "parsing"
    /\ hpath # <<>>
    /\ Len(chars) < MaxChars
    /\ \E s \in Texts : chars' = chars \o <<s>>
    /\ UNCHANGED <<hpath, rep, reps, server, status, rooted, docReps>>

\* RepXMLHandler.endElement: dispatch on the path of the closing element,
\* with self.chars stripped, then chars = "" and path.pop().
\* Bug variant of CloseRepository: the derived fields are computed for the
\* check but the entry appended is the record as the callbacks left it.
CloseRepositoryUnderived(r) ==
    LET p == NormPath(Join(RepositoryDir, r.name))
    IN  /\ reps' = IF StartsWithRepositoryDir(p) THEN Append(reps, r) ELSE reps
        /\ rep' = NewRepository

CloseRepository(r) ==
    LET done == [r EXCEPT
                   !.web  = WebOf(server.url, r.name),
                   !.path = NormPath(Join(RepositoryDir, r.name)),
                   !.url  = UrlOf(server.url, r.name)]
    IN  /\ reps' = IF StartsWithRepositoryDir(done.path)
                     THEN Append(reps, done) ELSE reps
        /\ rep' = NewRepository

EndElement ==
    LET text == Strip(chars) IN
    /\ status = "parsing"
    /\ hpath # <<>>
    /\ CASE hpath = <<"server">> ->
              /\ server' = [server EXCEPT !.content = reps]
              /\ UNCHANGED <<rep, reps>>
         [] hpath = <<"server", "repository">> ->
              /\ CloseRepository(rep)
              /\ UNCHANGED server
         [] hpath = <<"server", "url">> ->
              /\ server' = [server EXCEPT !.url = text]
              /\ UNCHANGED <<rep, reps>>
         [] hpath = <<"server", "title">> ->
              /\ server' = [server EXCEPT !.name = text]
              /\ UNCHANGED <<rep, reps>>
         [] hpath = <<"server", "description">> ->
              /\ server' = [server EXCEPT !.description = text]
              /\ UNCHANGED <<rep, reps>>
         [] hpath = <<"server", "repository", "title">> ->
              /\ rep' = [rep EXCEPT !.title = text]
              /\ UNCHANGED <<reps, server>>
         [] hpath = <<"server", "repository", "description">> ->
              /\ rep' = [rep EXCEPT !.description = text]
              /\ UNCHANGED <<reps, server>>
         [] OTHER -> UNCHANGED <<rep, reps, server>>
    /\ chars' = <<>>
    /\ hpath' = Front(hpath)
    /\ UNCHANGED <<status, rooted, docReps>>

\* xml.sax.parse returns once the document element has been closed.
EndDocument ==
    /\ status = "parsing"
    /\ rooted /\ hpath = <<>>
    /\ status' = "done"
    /\ UNCHANGED <<hpath, chars, rep, reps, server, rooted, docReps>>

\* The document is not well formed (or unreadable) at this point: the
\* parser raises, init() writes the error to stderr and returns normally
\* with SERVER as the callbacks so far left it.
ParseError ==
    /\ status = "parsing"
    /\ status' = "failed"
    /\ UNCHANGED <<hpath, chars, rep, reps, server, rooted, docReps>>

Next ==
    \/ \E t \in Tags : StartElement(t)
    \/ Characters
    \/ EndElement
    \/ EndDocument
    \/ ParseError

Spec == Init /\ [][Next]_vars

-----------------------------------------------------------------------------
(* Properties                                                              *)

\* Types; the catalog holds only closed repositories, which carry a
\* configured name and an absolute storage path.
TypeOK ==
    /\ hpath \in Seq(STRING) /\ Len(hpath) <= MaxDepth
    /\ chars \in Seq(Texts) /\ Len(chars) <= MaxChars
    /\ status \in {"parsing", "done", "failed"}
    /\ rooted \in BOOLEAN
    /\ docReps \in Seq(RepNames) /\ Len(docReps) <= MaxReps
    /\ \A e \in Range(reps) \cup Range(server.content) :
          /\ e.name \in RepNames
          /\ e.path \in [abs : {TRUE}, segs : Seq(STRING)]

\* The directory that repository/<name> under the server root names.
Location(n) ==
    IF n.abs THEN Walk(<<>>, n.segs)
    ELSE Walk(<<>>, RepositoryDir.segs \o n.segs)

\* A repository directory strictly below <root>/repository/ (so that
\* neither repository/ itself, holding repconf.xml, nor anything outside
\* it, can be served or modified as a repository).
InSandbox(n) == IsStrictPrefix(RepositoryDir.segs, Location(n))

\* The loader seen as CatalogLoad: the catalog published is SERVER.content
\* (names and storage paths), published once the document element is
\* closed.
CL == INSTANCE CatalogLoad WITH
        doc       <- docReps,
        content   <- [i \in DOMAIN server.content |->
                        [name |-> server.content[i].name,
                         path |-> server.content[i].path.segs]],
        published <- rooted /\ hpath = <<>>,
        status    <- status

\* provisioning.init() implements CatalogLoad: the SAX callbacks of
\* RepXMLHandler publish SERVER.content in the single assignment at
\* </server>, never piecemeal while repositories are being closed, and
\* never change it afterwards; a parse error may come at any point, a
\* normal return only after the root element is closed.
CatalogLoadRefined == CL!Spec
=============================================================================
