------------------------------- MODULE DemoApp -------------------------------
(***************************************************************************)
(* The demo application on the bare processor (main.c): get_input, which   *)
(* reads a line character by character into argv, and main, which makes    *)
(* quadlet and block calls of it. The calls are those of EmioStandalone.   *)
(*                                                                         *)
(* A character is a number: a hexadecimal digit, another letter, a space   *)
(* or the terminator. Row MaxArg of argv is the memory behind it. What     *)
(* earlier lines left in argv is junk.                                     *)
(***************************************************************************)
EXTENDS Integers, Sequences, FiniteSets

CONSTANTS
    MaxArg,     \* MAX_ARG (20)
    MaxLine,    \* MAX_LINE (120)
    MaxQuads,   \* MAX_QUADS (32)
    WordBits,   \* width of uint32_t and int (32)
    AddrBits,   \* width of an address (16)
    Letters,    \* characters that words are made of: digits 0 .. 15 and others
    Command     \* function from words to "help", "quad" or "block"

Space == 20
Nul == 21
Junk == 22

\* Powers of a base, as a function by recursion.
Power(base) == LET p[n \in Nat] == IF n = 0 THEN 1 ELSE base * p[n - 1] IN p

ASSUME DemoAssumption ==
    /\ MaxArg \in Nat \ {0} /\ MaxLine \in Nat \ {0} /\ MaxQuads \in Nat
    /\ AddrBits \in Nat /\ WordBits \in Nat \ {0}
    /\ Letters \subseteq 0 .. 19
    /\ \A w \in DOMAIN Command : w \in Seq(Letters) /\ Command[w] \in {"help", "quad", "block"}

VARIABLES
    dPc,      \* "prompt", "read" (in get_input) or "run"
    dArgv,    \* argv and the row behind it
    dArgc,    \* argc
    dNum,     \* numChar
    dSpace,   \* is_space
    dIgnore,  \* ignore
    dCall,    \* the call that the line led to
    dWords    \* history: the words of the line so far

dVars == <<dPc, dArgv, dArgc, dNum, dSpace, dIgnore, dCall, dWords>>

Rows(c) == [k \in 0 .. MaxArg |-> [n \in 0 .. MaxLine |-> c]]
NoCall == [op |-> "none"]

DemoInit ==
    /\ dPc = "prompt" /\ dArgv = Rows(Nul) /\ dArgc = 0 /\ dNum = 0 /\ dSpace = TRUE
    /\ dIgnore = FALSE /\ dCall = NoCall /\ dWords = <<>>

-----------------------------------------------------------------------------
(* get_input.                                                              *)

get_input ==
    /\ dPc = "prompt" /\ dPc' = "read"
    /\ dArgc' = 0 /\ dNum' = 0 /\ dIgnore' = FALSE /\ dSpace' = TRUE
    /\ dArgv' = Rows(Junk) /\ dCall' = NoCall /\ dWords' = <<>>

\* The words as a reader of the line sees them.
Extended(c) ==
    IF c = Space THEN dWords
    ELSE IF dSpace THEN Append(dWords, <<c>>)
    ELSE [dWords EXCEPT ![Len(dWords)] = Append(@, c)]

Stored(c) == [dArgv EXCEPT ![dArgc][dNum] = c]

\* Leaving the loop by break: the line counts as empty. The rest of it, which is
\* still to come, is read as the next line.
Ignored == dPc' = "run" /\ dIgnore' = TRUE /\ dArgc' = 0

\* A space that ends an argument.
EndOfArg ==
    /\ dPc = "read" /\ ~dSpace
    /\ dArgv' = Stored(Nul)
    /\ IF dArgc < MaxArg
       THEN dArgc' = dArgc + 1 /\ dNum' = 0 /\ dSpace' = TRUE /\ UNCHANGED <<dPc, dIgnore>>
       ELSE Ignored /\ UNCHANGED <<dNum, dSpace>>
    /\ UNCHANGED <<dCall, dWords>>

\* Any other space changes nothing; this is a letter.
Letter(c) ==
    /\ dPc = "read" /\ dSpace' = FALSE /\ dWords' = Extended(c)
    /\ IF dNum < MaxLine
       THEN dArgv' = Stored(c) /\ dNum' = dNum + 1 /\ UNCHANGED <<dPc, dArgc, dIgnore>>
       ELSE Ignored /\ UNCHANGED <<dArgv, dNum>>
    /\ dCall' = dCall

\* Mutant: the last argument is not terminated.
EndOfLine_NoNul ==
    /\ dPc = "read" /\ dPc' = "run"
    /\ dArgc' = IF dSpace THEN dArgc ELSE dArgc + 1
    /\ UNCHANGED <<dArgv, dNum, dSpace, dIgnore, dCall, dWords>>

\* The carriage return.
EndOfLine ==
    /\ dPc = "read" /\ dPc' = "run"
    /\ dArgv' = Stored(Nul)
    /\ dArgc' = IF dSpace THEN dArgc ELSE dArgc + 1
    /\ UNCHANGED <<dNum, dSpace, dIgnore, dCall, dWords>>

-----------------------------------------------------------------------------
(* main.                                                                   *)

\* The string in row k.
Arg(k) ==
    LET ends == {n \in 0 .. MaxLine : dArgv[k][n] = Nul}
        len  == IF ends = {} THEN MaxLine + 1 ELSE CHOOSE n \in ends : \A m \in ends : n <= m
    IN  [n \in 1 .. len |-> dArgv[k][n - 1]]

\* The loop of get_hex and get_dec: digits up to the first other character.
Digits(str, base) ==
    LET v[n \in 0 .. Len(str)] ==
            IF n = 0 THEN <<0, FALSE>>
            ELSE LET p == v[n - 1]
                 IN  IF p[2] \/ str[n] >= base THEN <<p[1], TRUE>>
                     ELSE <<(base * p[1] + str[n]) % Power(2)[WordBits], FALSE>>
    IN  v[Len(str)][1]
get_hex(str) == Digits(str, 16)
get_dec(str) == Digits(str, 10)

Address(str) == get_hex(str) % Power(2)[AddrBits]
Signed(n) == IF n >= Power(2)[WordBits - 1] THEN n - Power(2)[WordBits] ELSE n

\* Mutant: the count is not cut to MAX_QUADS.
Quads_NoMax ==
    LET num == Signed(get_dec(Arg(2)))
    IN  IF dArgc > 3 /\ num > dArgc - 3 THEN dArgc - 3 ELSE num

\* The number of quadlets of a block call.
Quads ==
    LET num == Signed(get_dec(Arg(2)))
        cut == IF num > MaxQuads THEN MaxQuads ELSE num
    IN  IF dArgc > 3 /\ cut > dArgc - 3 THEN dArgc - 3 ELSE cut

\* What main does with the line.
Dispatch ==
    /\ dPc = "run" /\ dPc' = "prompt"
    /\ LET cmd == IF dArgc > 0 /\ Arg(0) \in DOMAIN Command THEN Command[Arg(0)] ELSE "other"
       IN  dCall' =
             CASE cmd = "quad" /\ dArgc > 2 ->
                     [op |-> "WriteQuadlet", addr |-> Address(Arg(1)), data |-> <<get_hex(Arg(2))>>]
               [] cmd = "quad" /\ dArgc = 2 ->
                     [op |-> "ReadQuadlet", addr |-> Address(Arg(1))]
               [] cmd = "block" /\ dArgc > 3 ->
                     [op |-> "WriteBlock", addr |-> Address(Arg(1)), num |-> Quads,
                      data |-> [i \in 1 .. Quads |-> get_hex(Arg(2 + i))]]
               [] cmd = "block" /\ dArgc = 3 ->
                     [op |-> "ReadBlock", addr |-> Address(Arg(1)), num |-> Quads]
               [] OTHER -> NoCall
    /\ UNCHANGED <<dArgv, dArgc, dNum, dSpace, dIgnore, dWords>>

DemoNext ==
    get_input \/ EndOfArg \/ (\E c \in Letters : Letter(c)) \/ EndOfLine \/ Dispatch

DemoSpec == DemoInit /\ [][DemoNext]_dVars

-----------------------------------------------------------------------------
(* Properties.                                                             *)

Fits == Len(dWords) <= MaxArg /\ \A k \in DOMAIN dWords : Len(dWords[k]) <= MaxLine

\* A line that fits is taken word for word, and nothing is written behind argv unless
\* MaxArg words are followed by a space; a line that does not fit is dropped, or has
\* exactly one word too many and is taken with it (get_input).
LineParsed ==
    dPc = "run" =>
        /\ Fits => dArgc = Len(dWords) /\ ~dIgnore
        /\ ~Fits => dArgc = 0 \/ (dArgc = Len(dWords) /\ dArgc = MaxArg + 1)
        /\ \A k \in 1 .. dArgc : Arg(k - 1) = dWords[k]
        /\ Fits /\ ~(Len(dWords) = MaxArg /\ dSpace) => dArgv[MaxArg] = Rows(Junk)[MaxArg]

\* The number of leading digits of a word.
Leading(word, base) ==
    CHOOSE n \in 0 .. Len(word) :
        /\ \A k \in 1 .. n : word[k] < base
        /\ n < Len(word) => word[n + 1] >= base

\* The value of the first len digits of a word, as a sum of digits times powers that
\* begins with the last of them.
Sum(word, len, base) ==
    LET s[n \in 0 .. len] ==
            IF n = 0 THEN 0 ELSE s[n - 1] + word[len + 1 - n] * Power(base)[n - 1]
    IN  s[len]

\* The value of the leading digits of a word.
Value(word, base) == Sum(word, Leading(word, base), base) % Power(2)[WordBits]

Least(a, b) == IF a < b THEN a ELSE b

\* A call transfers what the line says: the address of the second word, data of the
\* words from the third or fourth on, and never more quadlets than data has room for,
\* than were asked for or, to write, than were given. A count that is negative as an
\* int is left out: it passes the test against MaxQuads (main, get_hex, get_dec).
CallMeant ==
    dPc = "prompt" /\ dCall.op # "none" =>
        /\ dCall.addr = Value(dWords[2], 16) % Power(2)[AddrBits]
        /\ dCall.op = "WriteQuadlet" => dCall.data = <<Value(dWords[3], 16)>>
        /\ dCall.op \in {"ReadBlock", "WriteBlock"} /\ Value(dWords[3], 10) < Power(2)[WordBits - 1] =>
              LET asked == Least(MaxQuads, Value(dWords[3], 10))
              IN  dCall.num = IF dCall.op = "ReadBlock" THEN asked
                              ELSE Least(asked, Len(dWords) - 3)
        /\ dCall.op = "WriteBlock" =>
              \A i \in DOMAIN dCall.data : dCall.data[i] = Value(dWords[3 + i], 16)

=============================================================================
