---------------------------- MODULE VideoLifecycle ----------------------------
(***************************************************************************)
(* What media_example keeps of the status machine of the Video aggregate:  *)
(* each video moves along its edges, one edge at a time, whoever asks for  *)
(* the move.  The machine is applied to a copy, so this holds as long as   *)
(* nobody saves from a copy that another save has overtaken.  A video with *)
(* such a copy under way is contested; it may move along an edge from any  *)
(* status it has had, and no farther.                                      *)
(***************************************************************************)
CONSTANT Video

VARIABLES
    state,      \* the status of each video
    had,        \* the statuses it has had
    contested   \* the videos with an overtaken copy under way

Pending == "pending"
Processing == "processing"
Done == "done"
Failed == "failed"
Status == {Pending, Processing, Done, Failed}

\* _ALLOWED: the statuses a video may move to next.
Allowed(s) == CASE s = Pending -> {Processing, Failed}
                [] s = Processing -> {Done, Failed}
                [] OTHER -> {}

Init ==
    /\ state = [v \in Video |-> Pending]
    /\ had = [v \in Video |-> {Pending}]
    /\ contested = {}

\* A save of v may leave others with an overtaken copy of it.
Move(v, s) ==
    /\ state' = [state EXCEPT ![v] = s]
    /\ had' = [had EXCEPT ![v] = @ \cup {s}]
    /\ contested' \subseteq contested \cup {v}

Transition(v) == \E s \in Allowed(state[v]) : Move(v, s)

Overwrite(v) ==
    /\ v \in contested
    /\ \E from \in had[v] : \E s \in Allowed(from) : Move(v, s)

\* An overtaken copy is given up.
Settle ==
    /\ contested' \subseteq contested
    /\ UNCHANGED <<state, had>>

Next ==
    \/ \E v \in Video : Transition(v) \/ Overwrite(v)
    \/ Settle

Spec == Init /\ [][Next]_<<state, had, contested>>
=============================================================================
