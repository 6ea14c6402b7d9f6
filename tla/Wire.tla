-------------------------------- MODULE Wire --------------------------------
(***************************************************************************)
(* What travels on the serial line.  Each direction of the line is a FIFO  *)
(* sequence of items, and one item is what one call of the program puts on *)
(* the line: a single byte (serial_putc, scif_putchar), the four bytes of  *)
(* an unsigned int (send_uint, put_uint), or the payload of a data block.  *)
(*                                                                         *)
(* A payload is known by its provenance, not by its bytes: it holds the    *)
(* source positions from+1 .. from+len and occupies wire bytes on the line *)
(* (wire = len when sent as it is, fewer when compressed).  ok says that   *)
(* no byte of it was damaged on the way.                                   *)
(***************************************************************************)
EXTENDS Integers, Sequences

Byte(c) == [kind |-> "byte", ch |-> c]
Word(n) == [kind |-> "word", num |-> n]
Payload(from, len, wire) ==
    [kind |-> "data", from |-> from, len |-> len, wire |-> wire, ok |-> TRUE]

IsType(item) == item.kind = "byte" /\ item.ch \in {"U", "C"}
IsSum(item) == item.kind = "byte" /\ item.ch = "sum"
IsReply(item) == item.kind = "byte" /\ item.ch \in {"G", "B"}
IsWord(item) == item.kind = "word"
IsPayload(item, wire) == item.kind = "data" /\ item.wire = wire

(* A byte of memory holds the source position it was copied from; these    *)
(* two values stand for a byte nothing was written to and for a byte       *)
(* written from a damaged payload.                                         *)
Unwritten == 0
Damaged == -1

(* Unsigned subtraction of the width whose values are 0 .. wrap - 1.       *)
SubU(a, b, wrap) == IF b <= a THEN a - b ELSE (a + wrap) - b

(* Memory after item's bytes are stored behind the first pos bytes.        *)
StoreShifted(mem, pos, item) ==  \* mutant: one byte too far
    [i \in DOMAIN mem |->
        IF pos + 1 < i /\ i <= pos + 1 + item.len THEN item.from + (i - pos - 1) ELSE mem[i]]
Store(mem, pos, item) ==
    [i \in DOMAIN mem |->
        IF pos < i /\ i <= pos + item.len
        THEN IF item.ok THEN item.from + (i - pos) ELSE Damaged
        ELSE mem[i]]

NoPayload == Payload(0, 0, 0)

(* How many bytes lzo1x_1_compress may make of n.                          *)
MostCompressed(n) == n + (n \div 16) + 64 + 3
Compressed(n) == 1 .. MostCompressed(n)

(* lzo1x_decompress gives back what was compressed, or, from a damaged     *)
(* payload, an error or something else, up to most bytes long.             *)
Decompress(item, most) ==
    IF item.ok THEN {[ok |-> TRUE, out |-> item]}
    ELSE {[ok |-> FALSE, out |-> item]} \cup
         {[ok |-> TRUE, out |-> [item EXCEPT !.len = n]] : n \in 0..most}

(* A block: its type, how many source bytes it carries and in how many     *)
(* bytes on the line.  A chunk goes compressed if that makes it smaller.   *)
Uncompressed(n) == [type |-> "U", len |-> n, wire |-> n]
Frame(n, csize) == IF csize < n THEN [type |-> "C", len |-> n, wire |-> csize]
                                ELSE Uncompressed(n)
NoFrame == [type |-> "none", len |-> 0, wire |-> 0]

(* What may be on a line.                                                  *)
PayloadItem == [kind : {"data"}, from : Nat, len : Nat, wire : Nat, ok : BOOLEAN]
Item == [kind : {"byte"}, ch : {"U", "C", "sum", "G", "B"}]
        \cup [kind : {"word"}, num : Nat]
        \cup PayloadItem
=============================================================================
