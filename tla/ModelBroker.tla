---------------------------- MODULE ModelBroker ----------------------------
(***************************************************************************)
(* What a guest's model broker promises to the completions of its session: *)
(* a completion that was asked for gets at most one answer, which never    *)
(* changes, and a caller that is handed an answer is handed that one.      *)
(* How the answer crosses the spool is ModelBrokerQueue's business.        *)
(***************************************************************************)
CONSTANTS Ids,      \* the completions, by their request ids
          Answers   \* whole answers a model execution can produce

VARIABLES caller,    \* "idle", "asking", "answered", "refused" or "gone"
          answer,    \* the answer of each completion: a set of at most one
          received   \* what the caller was handed: a set of at most one

vars == <<caller, answer, received>>

Init ==
    /\ caller = [i \in Ids |-> "idle"]
    /\ answer = [i \in Ids |-> {}]
    /\ received = [i \in Ids |-> {}]

Ask(i) ==
    /\ caller[i] = "idle"
    /\ caller' = [caller EXCEPT ![i] = "asking"]
    /\ UNCHANGED <<answer, received>>

\* The caller need not be there any more.
Answer(i) ==
    /\ caller[i] # "idle" /\ answer[i] = {}
    /\ \E a \in answer'[i] : a \in Answers /\ answer' = [answer EXCEPT ![i] = {a}]
    /\ UNCHANGED <<caller, received>>

Receive(i) ==
    /\ caller[i] = "asking" /\ answer[i] # {}
    /\ caller' = [caller EXCEPT ![i] = "answered"]
    /\ received' = [received EXCEPT ![i] = answer[i]]
    /\ UNCHANGED answer

Refuse(i) ==
    /\ caller[i] = "asking" /\ answer[i] = {}
    /\ caller' = [caller EXCEPT ![i] = "refused"]
    /\ UNCHANGED <<answer, received>>

\* Callers give up, or die together with their app-server.
Leave ==
    /\ \E S \in SUBSET {i \in Ids : caller[i] = "asking"} :
           caller' = [i \in Ids |-> IF i \in S THEN "gone" ELSE caller[i]]
    /\ UNCHANGED <<answer, received>>

Next == \/ \E i \in Ids : Ask(i) \/ Answer(i) \/ Receive(i) \/ Refuse(i)
        \/ Leave

Spec == Init /\ [][Next]_vars
=============================================================================
