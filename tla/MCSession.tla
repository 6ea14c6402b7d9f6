----------------------------- MODULE MCSession -----------------------------
(* Command lines as they are typed.  Of those after which a next dc-tool   *)
(* would find dcload as the last one has left it, none is in Basic: with a *)
(* file or a size that cannot be used, none has another speed or -i; with  *)
(* -i, none has -n or -p; and none has -E.  EarlyExit and ExternalClock    *)
(* are two of them.                                                        *)
EXTENDS Session, TLC

MCNumbers == "512" :> 512 @@ "115200" :> 115200 @@ "230400" :> 230400 @@ "12345" :> 12345
             @@ "0x8c010000" :> 1

C == INSTANCE CommandLine WITH Numbers <- MCNumbers, DefaultSpeed <- Initial

MCKnown == {38400, 19200, 9600, 57600, 115200, 230400, 500000, 1500000}

(* An executable with a section that has nothing to load, one that is not  *)
(* at an address and one that is empty, and a raw file.                    *)
MCSections == <<[addr |-> 1, size |-> 3, contents |-> TRUE, load |-> TRUE],
              [addr |-> 5, size |-> 2, contents |-> FALSE, load |-> FALSE],
              [addr |-> 0, size |-> 4, contents |-> TRUE, load |-> FALSE],
              [addr |-> 8, size |-> 0, contents |-> TRUE, load |-> TRUE],
              [addr |-> 9, size |-> 1, contents |-> TRUE, load |-> TRUE]>>
Elf(status) == [status |-> status, kind |-> "elf", entry |-> 2, size |-> 7, sections |-> MCSections]
Raw(status, size) == [status |-> status, kind |-> "raw", entry |-> 0, size |-> size,
                      sections |-> <<>>]

Invoke(words, file) == C!Options(words) @@ [file |-> file, bfd |-> FALSE]
WithBfd(o) == [o EXCEPT !.bfd = TRUE]

Word(letter) == <<"-", letter>>
Run == <<Word("x"), <<"f">>>>
Other == {<<>>, <<Word("n")>>, <<Word("p")>>, <<Word("i"), <<"iso">>>>}
Faster == {<<>>, <<<<"-", "b", "115200">>>>, <<<<"-", "e", "b", "230400">>>>,
           <<Word("b"), <<"12345">>>>}

Executions == {Invoke(Run \o other \o faster, Elf("good")) : other \in Other, faster \in Faster}
Transfers == {Invoke(words \o faster, Raw("good", size)) :
                 words \in {<<Word("u"), <<"f">>>>, <<<<"-", "q", "s", "512">>, <<"-", "d", "f">>>>,
                            <<Word("d"), <<"f">>, Word("s"), <<"512">>>>},
                 faster \in Faster, size \in {0, 7}}
Nothing == {Invoke(words, Elf("good")) : words \in {<<Word("h")>>, <<Word("p")>>,
                                                     Run \o <<Word("u"), <<"f">>>>}}
           \cup {Invoke(Run, Elf(status)) : status \in {"missing", "closed", "broken"}}
WithLibbfd == {WithBfd(o) : o \in {Invoke(Run, Elf(status)) : status \in {"good", "broken"}}}
(* Sessions that get as far as they were meant to, or that end before they *)
(* have changed anything on the target.                                    *)
Basic == Executions \cup Transfers \cup Nothing \cup WithLibbfd

(* The speed is changed and CD reads are redirected before upload finds    *)
(* that it cannot open the file.                                           *)
EarlyExit == {Invoke(<<<<"-", "b", "115200">>, Word("i"), <<"iso">>>> \o Run, Elf("closed"))}
ExternalClock == {Invoke(<<Word("E"), <<"-", "b", "115200">>, Word("u"), <<"f">>>>, Raw("good", 7))}
=============================================================================
