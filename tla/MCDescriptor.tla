---------------------------- MODULE MCDescriptor ----------------------------
(* The files of one repository directory /srv/repository/r1, base name   *)
(* "a": every .jad of up to three lines, every .dd document whose media   *)
(* element holds up to two children, every .jar manifest of up to two    *)
(* lines or none, each also unreadable, and a file of another extension. *)
(* MixedText is the text a non-leaf element may hold before its children. *)
EXTENDS Descriptor

CONSTANT MixedText

Dir == <<"srv", "repository", "r1">>

Values == {<<WS, "Foo">>, <<"Acme">>}
Lines ==
    [colon : {TRUE}, tag : {"MIDlet-Name", "MIDlet-Vendor", "MIDlet-Version"},
     value : Values]
    \cup {[colon |-> FALSE, tag |-> "junk", value |-> <<>>]}

Leaf(n, t) == [name |-> n, text |-> t, kids |-> <<>>]
Kids ==
    {Leaf(n, t) : n \in {"name", "vendor", "description"},
                  t \in {<<"A">>, <<WS, "B">>}}
    \cup {[name |-> "meta", text |-> t, kids |-> <<Leaf("name", <<"C">>)>>] :
          t \in MixedText}
Docs ==
    {[name |-> "media", text |-> t, kids |-> k] :
       t \in MixedText,
       k \in {<<>>} \cup {<<x>> : x \in Kids}
             \cup {p \in Kids \X Kids : p[1].name # p[2].name}}

LeafOnlyText == {<<>>}
MixedTexts == {<<>>, <<"x">>}

NoDoc == Leaf("media", <<>>)

File(ext, ok, ls, doc, man) ==
    [dir |-> Dir, base |-> "a", ext |-> ext, ok |-> ok,
     lines |-> ls, doc |-> doc, manifest |-> man]

MCInputs ==
    {File(".jad", ok, ls, NoDoc, <<>>) : ok \in BOOLEAN, ls \in BoundedSeq(Lines, 3)}
    \cup {File(".dd", TRUE, <<>>, doc, <<>>) : doc \in Docs}
    \cup {File(".dd", FALSE, <<>>, NoDoc, <<>>)}
    \cup {File(".jar", ok, <<>>, NoDoc, man) :
            ok \in BOOLEAN, man \in BoundedSeq(Lines, 2) \cup {Absent}}
    \cup {File(".txt", TRUE, <<>>, NoDoc, <<>>)}
=============================================================================
