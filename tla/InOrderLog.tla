----------------------------- MODULE InOrderLog -----------------------------
(***************************************************************************)
(* What a reliable upstream promises, without connections, resumes, acks or *)
(* buffers: data points are written one after the other, all that wait are  *)
(* cut into the next entry of a log, and the receiver obtains the entries   *)
(* in the order of the log, none skipped and none taken back.               *)
(***************************************************************************)
EXTENDS Naturals, Sequences

VARIABLES
    written,  \* data points written so far: 1 .. written
    pending,  \* those not in the log yet
    log,      \* sequence of sets of data points
    got       \* the entries the receiver holds, by their index

vars == <<written, pending, log, got>>

Init == written = 0 /\ pending = {} /\ log = <<>> /\ got = {}

Write ==
    /\ written' = written + 1
    /\ pending' = pending \cup {written + 1}
    /\ UNCHANGED <<log, got>>

Cut ==
    /\ pending # {}
    /\ log' = Append(log, pending)
    /\ pending' = {}
    /\ UNCHANGED <<written, got>>

Deliver ==
    /\ \E n \in 1 .. Len(log) : got = 1 .. n - 1 /\ got' = 1 .. n
    /\ UNCHANGED <<written, pending, log>>

Next == Write \/ Cut \/ Deliver

Spec == Init /\ [][Next]_vars
=============================================================================
