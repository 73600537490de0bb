------------------------------ MODULE Descriptor ------------------------------
(***************************************************************************)
(* The descriptor-metadata extractor of showbundles.py: get_info and the  *)
(* per-format readers get_jad_info, get_dd_info (with provisioning's      *)
(* MyXMLHandler), get_jar_info and parse_manifest.  All are functions of  *)
(* a file's content, so they are operators; the variable is only the    *)
(* file get_info is applied to.                                            *)
(*                                                                         *)
(* Text is a sequence of tokens (WS is whitespace, removed by strip()).   *)
(* A descriptor line is [colon, tag, value]: line.split(":", 1) has two   *)
(* fields exactly when colon holds, tag is the text before the first      *)
(* ":", value the rest.  A download descriptor (.dd) is an element tree   *)
(* [name, text, kids] that xml.sax delivers as start / characters / end   *)
(* events.  A file is [dir, base, ext, ok, lines, doc, manifest]; ok says *)
(* whether the format-level read succeeds (the .jad can be opened, the    *)
(* .dd is well formed, the .jar is a zip archive).                        *)
(***************************************************************************)
EXTENDS Integers, Sequences, SequencesExt, FiniteSets, TLC

CONSTANTS
    WS,       \* the whitespace token
    Absent    \* model value: the archive has no META-INF/MANIFEST.MF

TO_FETCH == {"Created-By", "MIDlet-Vendor", "MIDlet-Description",
             "MicroEdition-Configuration"}
TO_FETCH_NAME == {"MIDlet-Name"}
JarExts == {".jar", ".war", ".ear"}

Unavailable == <<"cannot read meta information">>

\* str.strip()
Strip(s) ==
    LET keep == {i \in DOMAIN s : s[i] # WS}
    IN  IF keep = {} THEN <<>>
        ELSE SubSeq(s, Min(keep), Max(keep))

\* The text of a line as read: tag ":" value, or the line as it is.
LineText(l) == IF l.colon THEN <<l.tag, ":">> \o l.value ELSE <<l.tag>> \o l.value

\* os.path.split / splitext of the full file name.
BaseName(f) == <<f.base>>
FileName(f) == <<f.base \o f.ext>>
FullName(f) == <<FoldLeft(LAMBDA acc, s : acc \o "/" \o s, "", f.dir) \o "/" \o f.base>>

\* A reader either returns a pair, returns something else (which get_info's
\* "name, info = ..." fails to unpack), or raises.
Pair(n, i) == [kind |-> "pair", name |-> n, info |-> i]
NotAPair   == [kind |-> "other", name |-> <<>>, info |-> <<>>]
Raise      == [kind |-> "raise", name |-> <<>>, info |-> <<>>]

-----------------------------------------------------------------------------
(* parse_manifest and the readers                                          *)

\* parse_manifest: "".join of the lines whose tag is in TO_FETCH.
ParseManifest(lines) ==
    LET info == SelectSeq(lines, LAMBDA l : l.colon /\ l.tag \in TO_FETCH)
    IN  FlattenSeq([i \in DOMAIN info |-> LineText(info[i])])

\* Bug variant of JadName: the loop has no break, the last MIDlet-Name
\* line wins.
JadNameLast(f) ==
    LET hits == {i \in DOMAIN f.lines : f.lines[i].colon /\ f.lines[i].tag \in TO_FETCH_NAME}
    IN  IF hits = {} THEN BaseName(f) ELSE Strip(f.lines[Max(hits)].value)

\* get_jad_info's first loop over file(filename): the first MIDlet-Name
\* line gives the name, stripped (the break), else the base name.
JadName(f) ==
    LET i == SelectInSeq(f.lines, LAMBDA l : l.colon /\ l.tag \in TO_FETCH_NAME)
    IN  IF i = 0 THEN BaseName(f) ELSE Strip(f.lines[i].value)

\* get_jad_info, where f1 is the file as the name loop's open reads it and
\* f2 as the second open, for parse_manifest, reads it; either open
\* raises when the file cannot be read.
GetJadReads(f1, f2) ==
    IF ~f1.ok \/ ~f2.ok THEN Raise ELSE Pair(JadName(f1), ParseManifest(f2.lines))

\* Bug variant of GetJarInfo: a non-archive yields a pair whose
\* description is the "unknown file type" message.
GetJarInfoPairOnNonZip(f) ==
    CASE ~f.ok              -> Pair(FullName(f), <<"unknown file type">>)
      [] f.manifest = Absent -> Raise
      [] OTHER               -> Pair(FullName(f), ParseManifest(f.manifest))

\* get_jar_info: a non-archive returns the string "unknown file type";
\* z.read raises KeyError when there is no manifest; the name is
\* os.path.splitext(filename)[0], the full path without extension.
GetJarInfo(f) ==
    CASE ~f.ok              -> NotAPair
      [] f.manifest = Absent -> Raise
      [] OTHER               -> Pair(FullName(f), ParseManifest(f.manifest))

-----------------------------------------------------------------------------
(* MyXMLHandler over the SAX events of a .dd document                      *)

StartEv(n) == [ev |-> "start", name |-> n, text |-> <<>>]
CharsEv(t) == [ev |-> "chars", name |-> "", text |-> t]
EndEv      == [ev |-> "end", name |-> "", text |-> <<>>]

\* The events xml.sax delivers for an element: its text comes before its
\* children.
RECURSIVE Events(_)
Events(e) ==
    <<StartEv(e.name)>> \o (IF e.text = <<>> THEN <<>> ELSE <<CharsEv(e.text)>>)
    \o FlattenSeq([i \in DOMAIN e.kids |-> Events(e.kids[i])]) \o <<EndEv>>

\* MyXMLHandler's state: d (path -> text), path, chars.
NewHandler == [d |-> <<>>, path |-> <<>>, chars |-> <<>>]

\* MyXMLHandler.startElement
HStart(h, n) == [h EXCEPT !.path = Append(@, n)]

\* MyXMLHandler.characters
HChars(h, t) == [h EXCEPT !.chars = @ \o t]

\* Bug variant of HEnd: self.chars is not reset.
HEndNoReset(h) ==
    [h EXCEPT !.d = (h.path :> Strip(h.chars)) @@ h.d, !.path = Front(h.path)]

\* MyXMLHandler.endElement: d['/'.join(path)] = chars.strip(); chars = "";
\* path.pop().
HEnd(h) ==
    [d |-> (h.path :> Strip(h.chars)) @@ h.d, path |-> Front(h.path), chars |-> <<>>]

HandlerMap(e) ==
    LET Step(h, ev) == CASE ev.ev = "start" -> HStart(h, ev.name)
                         [] ev.ev = "chars" -> HChars(h, ev.text)
                         [] OTHER           -> HEnd(h)
    IN  FoldLeft(Step, NewHandler, Events(e)).d

\* get_dd_info: description from media/description, else "Vendor: " and
\* media/vendor, else the file name; name from media/name, else
\* media/meta/name, else the file name.  xml.sax.parse raises on a
\* malformed document.
GetDdInfo(f) ==
    LET d == HandlerMap(f.doc)
        Has(k) == k \in DOMAIN d
    IN  IF ~f.ok THEN Raise
        ELSE Pair(CASE Has(<<"media", "name">>)         -> d[<<"media", "name">>]
                    [] Has(<<"media", "meta", "name">>) -> d[<<"media", "meta", "name">>]
                    [] OTHER                            -> FileName(f),
                  CASE Has(<<"media", "description">>)  -> d[<<"media", "description">>]
                    [] Has(<<"media", "vendor">>)       -> <<"Vendor: ">> \o d[<<"media", "vendor">>]
                    [] OTHER                            -> FileName(f))

-----------------------------------------------------------------------------
\* get_info: dispatch on the extension; a reader that raises, or returns
\* something that is not a pair, leaves the base name and the
\* "cannot read meta information" description; other extensions give "-".
\* f1 and f2 are the file as get_jad_info's two opens read it; the other
\* readers open it once.
GetInfoReads(f1, f2) ==
    LET r == CASE f2.ext = ".jad"    -> GetJadReads(f1, f2)
               [] f2.ext = ".dd"     -> GetDdInfo(f2)
               [] f2.ext \in JarExts -> GetJarInfo(f2)
               [] OTHER              -> Pair(BaseName(f2), <<"-">>)
    IN  IF r.kind = "pair" THEN [name |-> r.name, info |-> r.info]
        ELSE [name |-> BaseName(f2), info |-> Unavailable]

\* get_info(filename) on a file that does not change while it runs.
GetInfo(f) == GetInfoReads(f, f)

-----------------------------------------------------------------------------
(* get_info applied to the files of a repository, one call per step (the  *)
(* listing loop of print_rep_table / process_dir_xml, or return_fileinfo). *)

CONSTANT Inputs   \* the files a repository may hold
VARIABLE file     \* the file get_info is called on

Init == file \in Inputs
Next == file' \in Inputs
Spec == Init /\ [][Next]_file

-----------------------------------------------------------------------------
(* Reference definitions, from the contract of spec 4.3                    *)

\* The fallback DescriptorInfo: base name without extension and the
\* "metadata unavailable" sentinel.
Fallback(f) == [name |-> BaseName(f), info |-> Unavailable]

\* The manifest attributes kept in a description, in file order.
RefDescription(lines) ==
    FoldLeft(LAMBDA acc, l : IF l.colon /\ l.tag \in TO_FETCH
                             THEN acc \o LineText(l) ELSE acc,
             <<>>, lines)

\* Plain descriptor: the first line whose tag is exactly the display-name
\* attribute, trimmed.
RECURSIVE RefFirstName(_, _)
RefFirstName(lines, dflt) ==
    CASE lines = <<>>                                  -> dflt
      [] Head(lines).colon /\ Head(lines).tag = "MIDlet-Name" -> Strip(Head(lines).value)
      [] OTHER                                         -> RefFirstName(Tail(lines), dflt)

\* XML package descriptor: every leaf element's path mapped to its
\* trimmed text; inner elements are not recorded.
RECURSIVE RefLeaves(_, _)
RefLeaves(e, p) ==
    IF e.kids = <<>> THEN {<<Append(p, e.name), Strip(e.text)>>}
    ELSE UNION {RefLeaves(e.kids[i], Append(p, e.name)) : i \in DOMAIN e.kids}

RefDdInfo(f) ==
    LET L == RefLeaves(f.doc, <<>>)
        Has(k) == \E l \in L : l[1] = k
        Val(k) == (CHOOSE l \in L : l[1] = k)[2]
    IN  [name |-> CASE Has(<<"media", "name">>)         -> Val(<<"media", "name">>)
                    [] Has(<<"media", "meta", "name">>) -> Val(<<"media", "meta", "name">>)
                    [] OTHER                            -> FileName(f),
         info |-> CASE Has(<<"media", "description">>)  -> Val(<<"media", "description">>)
                    [] Has(<<"media", "vendor">>)       -> <<"Vendor: ">> \o Val(<<"media", "vendor">>)
                    [] OTHER                            -> FileName(f)]

Dispatched == {".jad", ".dd"} \cup JarExts

-----------------------------------------------------------------------------
(* Properties                                                              *)

\* Spec 4.3, plain descriptor: a .jad yields the first MIDlet-Name value,
\* trimmed, as name (the base name if there is none) and every
\* allow-listed line verbatim as description, independent of where the
\* name was found.  About get_jad_info's loop with its break and its
\* second read for parse_manifest.
JadInfoMatchesSpec ==
    file.ext = ".jad" /\ file.ok =>
        GetInfo(file) = [name |-> RefFirstName(file.lines, BaseName(file)),
                         info |-> RefDescription(file.lines)]

\* Spec 4.3, XML package descriptor: a .dd yields name and description
\* from the leaf elements media/name, media/meta/name, media/description
\* and media/vendor, each with its own trimmed text.  About MyXMLHandler,
\* which records every element's path with the characters accumulated
\* since the last endElement, and get_dd_info's lookup order.
DdInfoMatchesSpec ==
    file.ext = ".dd" /\ file.ok => GetInfo(file) = RefDdInfo(file)

\* Spec 4.3 and the test of spec 8: extraction never fails outward; an
\* unreadable .jad, a malformed .dd and a file that is not an archive all
\* give the base name without extension and the sentinel description.
\* About get_info's bare except, and get_jar_info returning a string
\* where get_info unpacks a pair.
UnreadableFallsBack ==
    file.ext \in Dispatched /\ ~file.ok => GetInfo(file) = Fallback(file)
=============================================================================
