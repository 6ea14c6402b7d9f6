----------------------------- MODULE Exception ------------------------------
(***************************************************************************)
(* The exception handler of the target (exception.s), which the loader     *)
(* puts where the vector points: it saves the registers one after the      *)
(* other, with some of them as its own work registers, draws their names   *)
(* and their values, and starts dcload again.                              *)
(*                                                                         *)
(* A register is a pair of a name and a number.  Its value is known by     *)
(* whose value it was when the exception came: the register a reader of    *)
(* the screen would call by that name.                                     *)
(***************************************************************************)
EXTENDS Integers, Sequences, TLC

CONSTANT Codes      \* of exceptions (expevt)

VARIABLES
    expevt,     \* the code of this one
    pc,         \* what the handler does next
    cpu,        \* the value in each register
    bank,       \* which floating point bank is FR0..FR15 (fpscr.fr)
    dump,       \* the words regdump has stored
    pushed,     \* what is on the stack below them
    column,     \* which of the four columns is drawn next
    screen      \* the texts drawn: [x, y, len, shows]

exceptionVars == <<expevt, pc, cpu, bank, dump, pushed, column, screen>>

Row(name, numbers) == [i \in 1 .. Len(numbers) |-> <<name, numbers[i]>>]
UpTo(a, b) == [i \in 1 .. b - a + 1 |-> a + i - 1]
One(name) == <<<<name, 0>>>>
Control == One("PC") \o One("PR") \o One("SR") \o One("GBR") \o One("VBR") \o One("DBR")
           \o One("MACH") \o One("MACL")

(* The names on the screen (labels1 to labels4): R0B0 is <<"B0", 0>>.      *)
Labels == <<
    Control \o Row("B0", UpTo(0, 7)),
    Row("B1", UpTo(0, 7)) \o Row("R", UpTo(8, 15)),
    One("FPSC") \o Row("FR", UpTo(0, 15)),
    One("FPUL") \o Row("XF", UpTo(0, 15))>>

(* External: where the processor has put them when the handler starts.     *)
(* PC, SR and R15 are in spc, ssr and sgr, and the registers of bank 1 are *)
(* r0 to r7.                                                               *)
Places == Control \o Row("r_bank", UpTo(0, 7)) \o Row("r", UpTo(0, 14)) \o One("sgr")
          \o One("FPSC") \o One("FPUL")
HeldBy(place) ==
    CASE place[1] = "r_bank" -> <<"B0", place[2]>>
      [] place[1] = "r" -> IF place[2] < 8 THEN <<"B1", place[2]>> ELSE <<"R", place[2]>>
      [] place[1] = "sgr" -> <<"R", 15>>
      [] OTHER -> place
PlaceSet == {Places[i] : i \in DOMAIN Places}
Scratch == <<"scratch", 0>>     \* a value of the handler itself
Overwrite(places) == [p \in PlaceSet |-> IF p \in places THEN Scratch ELSE cpu[p]]

(* general_1: the old pr, r0 and r1 are pushed, then the call needs r0 and *)
(* pr.                                                                     *)
Enter ==
    /\ pc = "enter"
    /\ pushed' = <<cpu[<<"PR", 0>>], cpu[<<"r", 0>>], cpu[<<"r", 1>>]>>
    /\ cpu' = Overwrite({<<"PR", 0>>, <<"r", 0>>})
    /\ pc' = "save"
    /\ UNCHANGED <<expevt, bank, dump, column, screen>>

(* What regdump stores, in this order: a register, a word it finds on the  *)
(* stack, or a floating point register.                                    *)
Reg(p) == [from |-> "cpu", what |-> p]
Stack(i) == [from |-> "stack", what |-> i]
Regs(name, a, b) == [i \in 1 .. b - a + 1 |-> Reg(<<name, a + i - 1>>)]
Floats == [i \in 1..16 |-> [from |-> "fr", what |-> i - 1]]
OrderPushed == <<Stack(3), Stack(2)>>       \* mutant: r1 before r0
PushedOrder == <<Stack(2), Stack(3)>>
Order ==
    <<Reg(<<"PC", 0>>), Stack(1)>>
    \o [i \in 1..6 |-> Reg(Control[i + 2])]
    \o Regs("r_bank", 0, 7)
    \o PushedOrder \o Regs("r", 2, 14)
    \o <<Reg(<<"sgr", 0>>), Reg(<<"FPSC", 0>>)>>
    \o Floats \o <<Reg(<<"FPUL", 0>>)>> \o Floats

(* The bank is selected before the first of each sixteen.                  *)
BankFor(k) == IF k = 34 THEN 0 ELSE IF k = 51 THEN 1 ELSE bank
Stored(s, b) ==
    CASE s.from = "cpu" -> cpu[s.what]
      [] s.from = "stack" -> pushed[s.what]
      [] s.from = "fr" -> <<IF b = 0 THEN "FR" ELSE "XF", s.what>>

(* Every store goes through r1 to where r0 points.                         *)
Save ==
    /\ pc = "save"
    /\ Len(dump) < Len(Order)
    /\ LET k == Len(dump) + 1
       IN  /\ bank' = BankFor(k)
           /\ dump' = Append(dump, Stored(Order[k], BankFor(k)))
    /\ cpu' = Overwrite({<<"r", 0>>, <<"r", 1>>} \cup
                        IF Len(dump) + 1 \in {34, 51} THEN {<<"FPSC", 0>>} ELSE {})
    /\ UNCHANGED <<expevt, pc, pushed, column, screen>>

Saved ==
    /\ pc = "save"
    /\ Len(dump) = Len(Order)
    /\ pc' = "names"
    /\ cpu' = Overwrite({<<"r", i>> : i \in 0..7})  \* setup_video
    /\ UNCHANGED <<expevt, bank, dump, pushed, column, screen>>

-----------------------------------------------------------------------------
(* The four columns: where they are on the screen and which words of the   *)
(* dump are in them.                                                       *)
ColumnX == <<0, 160, 320, 480>>
ColumnY == <<72, 72, 48, 48>>
Lines == <<16, 16, 17, 17>>
FirstWord == <<0, 16, 32, 49>>
ValueX == 52
LineHeight == 24
CharWidth == 12

Text(x, y, len, shows) == [x |-> x, y |-> y, len |-> len, shows |-> shows]

(* disp_labels and disp_values draw one column, a line below another; a    *)
(* name is four characters long and a word is drawn as eight digits.       *)
Names(c) == {Text(ColumnX[c], ColumnY[c] + (i - 1) * LineHeight, 4, <<"name", Labels[c][i]>>) :
                i \in 1 .. Lines[c]}
Values(c) == {Text(ColumnX[c] + ValueX, ColumnY[c] + (i - 1) * LineHeight, 8,
                   <<"value", dump[FirstWord[c] + i]>>) : i \in 1 .. Lines[c]}

ShowColumn ==
    /\ pc \in {"names", "values"}
    /\ screen' = screen \cup (IF pc = "names" THEN Names(column) ELSE Values(column))
    /\ column' = (column % 4) + 1
    /\ pc' = IF column < 4 THEN pc ELSE IF pc = "names" THEN "values" ELSE "code"
    /\ UNCHANGED <<expevt, cpu, bank, dump, pushed>>

(* exception_code_to_string *)
Described ==
    (\h1e0 :> "User break") @@ (\h0e0 :> "Address error (read)")
    @@ (\h040 :> "TLB miss exception (read)")
    @@ (\h0a0 :> "TLB protection violation exception (read)")
    @@ (\h180 :> "General illegal instruction exception")
    @@ (\h1a0 :> "Slot illegal instruction exception")
    @@ (\h800 :> "General FPU disable exception")
    @@ (\h820 :> "Slot FPU disable exception")
    @@ (\h100 :> "Address error (write)") @@ (\h060 :> "TLB miss exception (write)")
    @@ (\h0c0 :> "TLB protection violation exception (write)")
    @@ (\h120 :> "FPU exception") @@ (\h080 :> "Initial page write exception")
    @@ (\h160 :> "Unconditional trap (TRAPA)")
Description(code) ==
    IF code \in DOMAIN Described THEN Described[code] ELSE "Unknown exception"

(* uint_to_string: eight digits, the last one from the lowest four bits.   *)
Digits(n) == [i \in 1..8 |-> (n \div 16 ^ (8 - i)) % 16]

ShowCode ==
    /\ pc = "code"
    /\ screen' = screen \cup
          {Text(0, 24, Len(Description(expevt)), <<"text", Description(expevt)>>),
           Text(0, 48, 6, <<"text", "EXPEVT">>), Text(84, 48, 8, <<"digits", Digits(expevt)>>)}
    /\ pc' = "done"     \* jmp 0x8c004000: dcload starts again
    /\ UNCHANGED <<expevt, cpu, bank, dump, pushed, column>>

-----------------------------------------------------------------------------
Raised(code, b) ==
    /\ expevt = code /\ bank = b /\ pc = "enter" /\ column = 1
    /\ cpu = [p \in PlaceSet |-> HeldBy(p)]
    /\ dump = <<>> /\ pushed = <<>> /\ screen = {}

ExceptionInit == \E code \in Codes, b \in {0, 1} : Raised(code, b)

ExceptionNext == Enter \/ Save \/ Saved \/ ShowColumn \/ ShowCode

-----------------------------------------------------------------------------
(* No text is drawn on another one or beyond the screen of 640 by 480.     *)
TextsApart ==
    /\ \A t \in screen : t.x + t.len * CharWidth <= 640 /\ t.y + LineHeight <= 480
    /\ \A t, u \in screen :
          \/ t = u \/ t.y + LineHeight <= u.y \/ u.y + LineHeight <= t.y
          \/ t.x + t.len * CharWidth <= u.x \/ u.x + u.len * CharWidth <= t.x

(* What stands behind a name on the screen is the value the register of    *)
(* that name had when the exception came: the handler has not used it      *)
(* before it was saved, and the four tables of names are in the order of   *)
(* the stores.  And it can be read.                                        *)
ShownAsItWas ==
    /\ TextsApart
    /\ pc = "done" =>
           \A c \in 1..4 : \A i \in DOMAIN Labels[c] :
               \E name, value \in screen :
                   /\ name.shows = <<"name", Labels[c][i]>>
                   /\ value.shows = <<"value", Labels[c][i]>>
                   /\ value.y = name.y /\ value.x = name.x + ValueX
=============================================================================
