----------------------------- MODULE BatchSpec -----------------------------
(***************************************************************************)
(* What a message to the dispatcher promises: it is refused and nothing of *)
(* it runs, or each of its entries is answered once, in any order, by a    *)
(* method that ran at most once; the reply lists those answers in the      *)
(* order of the entries and is final.                                      *)
(***************************************************************************)
EXTENDS Integers, Sequences

CONSTANTS
    Ids,             \* what an entry may be answered with
    Forms,           \* what a message and its reply may look like
    Pending,         \* no reply yet
    Silent,          \* the reply of notifications alone
    Refusals,        \* the replies to a message that is not dispatched
    InvalidCode,     \* the code an invalid entry is answered with
    InternalCode     \* the code of an answer that cannot be written

VARIABLES
    form,   \* what the message looks like
    ask,    \* its entries
    ran,    \* per entry: its method was started
    told,   \* per entry: what the observer was told, once it was
    given,  \* per entry: the response, if there is one
    reply   \* the reply to the message

vars == <<form, ask, ran, told, given, reply>>

(* valid: a request whose method may run.  silent: a notification. *)
Ask == [id: Ids, valid: BOOLEAN, silent: BOOLEAN]

Init ==
    /\ form \in Forms
    /\ ask \in Seq(Ask)
    /\ ran = [i \in DOMAIN ask |-> FALSE]
    /\ told = [i \in DOMAIN ask |-> << >>]
    /\ given = [i \in DOMAIN ask |-> << >>]
    /\ reply = Pending

(* Nothing of the message has run. *)
Refuse ==
    /\ reply = Pending
    /\ \A i \in DOMAIN ask : ~ran[i] /\ told[i] = << >>
    /\ reply' \in Refusals
    /\ UNCHANGED <<form, ask, ran, told, given>>

Run(i) ==
    /\ reply = Pending
    /\ ask[i].valid
    /\ ~ran[i]
    /\ told[i] = << >>
    /\ ran' = [ran EXCEPT ![i] = TRUE]
    /\ UNCHANGED <<form, ask, told, given, reply>>

(* info and response are what an entry q may be answered with. *)
answers(info, response, q) ==
    /\ info.notification = q.silent
    /\ ~q.valid => info.code = InvalidCode
    /\ IF q.silent THEN response = << >>
       ELSE /\ Len(response) = 1
            /\ response[1].id = q.id
            /\ response[1].code \in {info.code, InternalCode}

Answer(i) ==
    /\ reply = Pending
    /\ told[i] = << >>
    /\ ran[i] <=> ask[i].valid
    /\ Len(told'[i]) = 1
    /\ answers(told'[i][1], given'[i], ask[i])
    /\ told' = [told EXCEPT ![i] = told'[i]]
    /\ given' = [given EXCEPT ![i] = given'[i]]
    /\ UNCHANGED <<form, ask, ran, reply>>

responding == {i \in DOMAIN ask : given[i] # << >>}

(* body lists the responses in the order of the entries. *)
inOrder(body) ==
    \E f \in [DOMAIN body -> DOMAIN ask] :
        /\ \A k, l \in DOMAIN f : k < l => f[k] < f[l]
        /\ {f[k] : k \in DOMAIN f} = responding
        /\ \A k \in DOMAIN f : given[f[k]] = <<body[k]>>

Respond ==
    /\ reply = Pending
    /\ ask # << >>
    /\ \A i \in DOMAIN ask : told[i] # << >>
    /\ IF responding = {} THEN reply' = Silent
       ELSE reply'.shape = form /\ inOrder(reply'.body)
    /\ UNCHANGED <<form, ask, ran, told, given>>

Next ==
    \/ Refuse
    \/ \E i \in DOMAIN ask : Run(i) \/ Answer(i)
    \/ Respond

Spec == Init /\ [][Next]_vars
=============================================================================
