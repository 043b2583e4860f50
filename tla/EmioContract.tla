----------------------------- MODULE EmioContract -----------------------------
(***************************************************************************)
(* What a caller of EMIO_Interface may rely on, without pins, waiting or   *)
(* drivers: a call is carried out as bus transactions, one at a time and   *)
(* in order, and a call that reports success has carried out all of them.  *)
(*                                                                         *)
(* A call may be excused: the drivers make no such promise for calls in    *)
(* which a wait timed out (mmap) or which meet one of the situations named *)
(* in EmioGpiod. Even an excused call stays within its registers and its   *)
(* direction; an empty block that is excused may touch the register that   *)
(* it starts at. Nothing is promised of a call that is lost: a request to  *)
(* the operating system failed and the driver did not look (gpiod). The    *)
(* next call may find what a lost one left on the lines and be lost too;   *)
(* else it is promised what the others are.                                *)
(***************************************************************************)
EXTENDS EmioCalls

VARIABLES
    active,    \* a call is in progress
    call,      \* that call, or the last one
    log,       \* its bus transactions so far
    got,       \* the quadlets handed to the caller so far
    ret,       \* what the last call returned
    excused,   \* the call is not promised to be carried out exactly
    lost       \* nothing is promised of the call

vars == <<active, call, log, got, ret, excused, lost>>

Init ==
    /\ ~active
    /\ call \in Calls
    /\ log = <<>> /\ got = <<>>
    /\ ret = "none" /\ ~excused /\ ~lost

\* A call begins, or is refused at once because the bus version has no blocks.
Begin ==
    /\ ~active
    /\ call' \in Calls
    /\ log' = <<>> /\ got' = <<>>
    /\ excused' \in BOOLEAN /\ lost' \in {FALSE, lost}
    /\ \/ active' = TRUE /\ ret' = "none"
       \/ active' = FALSE /\ ret' = "false" /\ IsBlock(call')

\* The next quadlet is read or written on the bus. A lost call may have left the
\* request up when it returned.
Transact ==
    /\ active \/ lost
    /\ \E e \in Quadlets :
          /\ log' = Append(log, e)
          /\ lost \/ InPlace(e, IF excused THEN NonEmpty(call) ELSE call, Len(log'))
          /\ excused \/ lost \/ Answers(e, call, Len(log'))
    /\ UNCHANGED <<active, call, got, ret, excused, lost>>

\* A quadlet that was read is handed to the caller.
Deliver ==
    /\ active /\ ~IsWrite(call)
    /\ \E v \in Quads : got' = Append(got, OnBus(call, v))
    /\ \/ excused \/ lost
       \/ Len(got') <= Len(log) /\ got' = Append(got, OnBus(call, log[Len(got')].val))
    /\ UNCHANGED <<active, call, log, ret, excused, lost>>

\* The call becomes excused.
Excuse ==
    /\ active /\ ~excused /\ excused' = TRUE
    /\ UNCHANGED <<active, call, log, got, ret, lost>>

\* The call is lost.
Lose ==
    /\ active /\ ~lost /\ lost' = TRUE
    /\ UNCHANGED <<active, call, log, got, ret, excused>>

Finish ==
    /\ active /\ active' = FALSE
    /\ \/ ret' = "false"
       \/ /\ ret' = "true"
          /\ excused \/ lost \/ (Len(log) = call.n /\ (~IsWrite(call) => Len(got) = call.n))
    /\ UNCHANGED <<call, log, got, excused, lost>>

Next == Begin \/ Transact \/ Deliver \/ Excuse \/ Lose \/ Finish

Spec == Init /\ [][Next]_vars

=============================================================================
