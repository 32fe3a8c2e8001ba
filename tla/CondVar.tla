------------------------------- MODULE CondVar -------------------------------
(***************************************************************************)
(* Condition variables, as the code uses std::condition_variable and       *)
(* pthread_cond_t: the state of one is the set of threads asleep on it,    *)
(* and a thread that is woken competes for the mutex like any other.       *)
(***************************************************************************)

\* The sets of sleepers that signalling one of them can leave.
NotifyOne(asleep) == IF asleep = {} THEN {asleep} ELSE {asleep \ {t} : t \in asleep}

\* A sleeper may also wake up by itself.
WakeOne(asleep) == {asleep \ {t} : t \in asleep}
=============================================================================
