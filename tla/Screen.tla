------------------------------- MODULE Screen -------------------------------
(***************************************************************************)
(* What dcload shows: the display controller's registers (video.s:         *)
(* init_video), characters of the ROM's font in a frame of 640 by 480      *)
(* pixels of two bytes (draw_string, clrscr), and the progress of a load   *)
(* (dcload.c: draw_progress).  A behaviour sets the screen up, writes the  *)
(* title and then shows how far a load has come, once and again.           *)
(*                                                                         *)
(* An address in the frame is an offset from its first byte.               *)
(***************************************************************************)
EXTENDS Integers, Sequences, FiniteSets

CONSTANTS
    Font,       \* the ROM's font: bytes 0, 1, ...
    Title,      \* what is written at first, as a sequence of characters
    Shows       \* what happens: [port, mode, progress], progress a sequence
                \* of [current, total] as eight characters each

Blank == 288        \* the last character of the font
FontSize == 36 * (Blank + 1)
Chars == 0..255

(* Characters of the title stay on the screen, and sizes have eight digits. *)
ASSUME ScreenAssumption ==
    /\ \A at \in 0 .. FontSize - 1 : Font[at] \in 0..255
    /\ Title \in Seq(Chars) /\ 12 * Len(Title) <= 640
    /\ \A s \in Shows :
        /\ s.port \in Nat /\ s.mode \in 0..3
        /\ s.progress \in Seq([current : [1..8 -> Chars], total : [1..8 -> Chars]])

VARIABLES
    show,       \* one of Shows
    shown,      \* how many calls of draw_progress have come to their end
    todo,       \* what is still to be done: set up, clear lines, draw strings
    regs,       \* the registers of the display controller
    vram        \* the addresses of the pixels that are not black

screenVars == <<show, shown, todo, regs, vram>>

LineBytes == 640 * 2
CharHeight == 24
-----------------------------------------------------------------------------
(* A cable is read from a port: 0 is VGA, 2 RGB and 3 composite.           *)
CheckCable(word) == (word \div 256) % 4

(* Pixels are 2 bytes wide, in mode 3 they are 4.                          *)
PixelShift(mode) == <<1, 1, 0, 2>>[mode + 1]
WordsPerLine(mode) == 160 * 2 ^ PixelShift(mode)

(* The registers whose values depend on one another: where each field      *)
(* begins, how many lines it has, how many 32-bit words a line has and how *)
(* many are skipped after it.                                              *)
IsVga(cable) == (cable \div 2) % 2 = 0       \* bit 1
Modulo(cable, mode) == IF IsVga(cable) THEN 1 ELSE 1 + WordsPerLine(mode)
InitVideo(cable, mode) ==
    [clock |-> (IF IsVga(cable) THEN 2 ^ 23 ELSE 0) + 4 * mode + 1,
     long |-> 0,
     short |-> 640 * 2 ^ PixelShift(mode),
     size |-> [modulo |-> Modulo(cable, mode),
               lines |-> IF IsVga(cable) THEN 480 ELSE 240,
               words |-> WordsPerLine(mode)],
     interlaced |-> ~IsVga(cable),
     cvbs |-> (cable % 4) * 256]

ClearScreen == vram' = {}

SetupVideo ==
    /\ todo # <<>>
    /\ Head(todo).do = "setup"
    /\ todo' = Tail(todo)
    /\ regs' = InitVideo(CheckCable(show.port), show.mode)
    /\ ClearScreen
    /\ UNCHANGED <<show, shown>>
-----------------------------------------------------------------------------
(* Which character of the font is drawn.                                   *)
Glyph(char) ==
    CASE char \in 33..126 -> char - 32
      [] char \in 160..255 -> char - 64
      [] OTHER -> Blank

(* draw_char12: three bytes of the font at a time, the upper twelve bits   *)
(* are the pixels of a line and the lower twelve those of the next.        *)
DrawMod == 2 * (640 - 12)
Loaded(char, pair) ==
    LET at == 36 * Glyph(char) + 3 * pair
    IN  Font[at] * 65536 + Font[at + 1] * 256 + Font[at + 2]
DrawChar(x, y, char) ==
    LET start == 2 * x + LineBytes * y
        pixel(line, i) == start + line * (2 * 12 + DrawMod) + 2 * i
        ones(word) == {k \in 0..23 : (word \div 2 ^ (23 - k)) % 2 = 1}
    IN  UNION {{pixel(2 * pair + k \div 12, k % 12) : k \in ones(Loaded(char, pair))} :
               pair \in 0..11}

Clear(y, n) == [do |-> "clear", y |-> y, n |-> n]
Draw(x, y, string) == [do |-> "draw", x |-> x, y |-> y, string |-> string]

(* clear_lines: memset to black.                                           *)
ClearLines ==
    /\ todo # <<>>
    /\ Head(todo).do = "clear"
    /\ LET from == LineBytes * Head(todo).y
       IN  vram' = vram \ (from .. from + Head(todo).n * LineBytes - 1)
    /\ todo' = Tail(todo)
    /\ UNCHANGED <<show, shown, regs>>

(* draw_string: a character, and then twelve pixels to the right.          *)
DrawNext ==
    /\ todo # <<>>
    /\ Head(todo).do = "draw"
    /\ LET d == Head(todo)
       IN  IF d.string = <<>>
           THEN todo' = Tail(todo) /\ UNCHANGED vram
           ELSE /\ vram' = vram \cup DrawChar(d.x, d.y, Head(d.string))
                /\ todo' = <<Draw(d.x + 12, d.y, Tail(d.string))>> \o Tail(todo)
    /\ UNCHANGED <<show, shown, regs>>

ProgressTwelve(p) ==    \* mutant: half of the old text stays
    <<Clear(72, 12), Draw(0, 72, <<40>>), Draw(12, 72, p.current), Draw(108, 72, <<47>>),
      Draw(120, 72, p.total), Draw(216, 72, <<41>>)>>
Progress(p) ==
    <<Clear(72, 24), Draw(0, 72, <<40>>), Draw(12, 72, p.current), Draw(108, 72, <<47>>),
      Draw(120, 72, p.total), Draw(216, 72, <<41>>)>>
DrawProgress ==
    /\ regs # <<>> /\ todo = <<>>
    /\ shown < Len(show.progress)
    /\ todo' = Progress(show.progress[shown + 1])
    /\ shown' = shown + 1
    /\ UNCHANGED <<show, regs, vram>>

Displayed(s) ==
    /\ show = s /\ shown = 0
    /\ todo = <<[do |-> "setup"], Draw(0, 24, Title)>>
    /\ regs = <<>> /\ vram = {}
ScreenInit == \E s \in Shows : Displayed(s)

ScreenNext == SetupVideo \/ ClearLines \/ DrawNext \/ DrawProgress

ScreenSpec == ScreenInit /\ [][ScreenNext]_screenVars
-----------------------------------------------------------------------------
(* What a viewer sees: row by row, the twelve bits of each row of each     *)
(* character, counted from the first bit of the character.                 *)
FontBit(char, row, i) ==
    LET bit == 12 * row + i
    IN  (Font[36 * Glyph(char) + bit \div 8] \div 2 ^ (7 - (bit % 8))) % 2 = 1
Drawn(x, y, string) ==
    {<<x + 12 * (t[1] - 1) + t[3], y + t[2]>> : t \in
        {t \in (1 .. Len(string)) \X (0 .. CharHeight - 1) \X (0..11) :
            FontBit(string[t[1]], t[2], t[3])}}
ProgressLine(p) == Drawn(0, 72, <<40>> \o p.current \o <<47>> \o p.total \o <<41>>)
Visible == {<<(a % LineBytes) \div 2, a \div LineBytes>> : a \in vram}

(* The display goes through the frame line by line, without interlacing or *)
(* by two fields: every line of the frame is shown once, and whole.        *)
LinesFrom(begins, step, n) == {b + j * step : b \in begins, j \in 0 .. n - 1}
EveryLineShown ==
    regs # <<>> =>
       LET bytes == 640 * 2 ^ PixelShift(show.mode)
           step == 4 * (regs.size.words + regs.size.modulo - 1)
           begins == IF regs.interlaced THEN {regs.long, regs.short} ELSE {regs.long}
       IN  /\ 4 * regs.size.words = bytes
           /\ LinesFrom(begins, step, regs.size.lines) = LinesFrom({0}, bytes, 480)
           /\ Cardinality(begins) * regs.size.lines = 480

(* When something has been written the screen shows the title, the last    *)
(* progress and nothing else: nothing of what was there before, and each   *)
(* character as it is in the font and at its place, in lines that are all  *)
(* shown.                                                                  *)
ShowsTheLast ==
    /\ EveryLineShown
    /\ regs # <<>> /\ todo = <<>> =>
          Visible = Drawn(0, 24, Title)
                    \cup (IF shown = 0 THEN {} ELSE ProgressLine(show.progress[shown]))
=============================================================================
