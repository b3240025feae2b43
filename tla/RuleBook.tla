------------------------------ MODULE RuleBook ------------------------------
(***************************************************************************)
(* What the ruleset manager promises to the queries, without files,        *)
(* downloads, timers or a matcher that is built rule by rule: every answer *)
(* comes from all rules that were in the book at one moment, and between   *)
(* two refreshes from those that are there now.                            *)
(***************************************************************************)
CONSTANTS Sets,           \* configured rulesets
          Books,          \* Books[s]: what the source of set s may bring in
          Names,          \* names that are asked for
          Decision(_, _)  \* Decision(R, d): what the rules R say about d

VARIABLES book,           \* book[s]: the rules set s has brought in
          answers,        \* what queries are told
          settled         \* no refresh is going on

vars == <<book, answers, settled>>

Whole == UNION {book[s] : s \in Sets}

Says(R) == [d \in Names |-> Decision(R, d)]

Init == /\ book = [s \in Sets |-> {}]
        /\ answers = Says({})
        /\ settled = FALSE

\* A refresh begins; the answers stay as they are.
Refresh == /\ settled
           /\ settled' = FALSE
           /\ UNCHANGED <<book, answers>>

\* In a refresh, a set replaces its rules; nobody is told yet.
Revise(s, R) == /\ ~settled
                /\ book' = [book EXCEPT ![s] = R]
                /\ UNCHANGED <<answers, settled>>

\* All answers change at once.
Publish == /\ ~settled
           /\ answers' = Says(Whole)
           /\ settled' = TRUE
           /\ UNCHANGED book

\* A process starts or ends: the book stays, but is not read yet.
Restart == /\ answers' = Says({})
           /\ settled' = FALSE
           /\ UNCHANGED book

Next == \/ Refresh \/ Publish \/ Restart
        \/ \E s \in Sets : \E R \in Books[s] : Revise(s, R)

Spec == Init /\ [][Next]_vars
=============================================================================
