------------------------------- MODULE Handles -------------------------------
(***************************************************************************)
(* What the connections of an instance promise to those who use them,      *)
(* without cache, keys or the order of calls: the life of a handle and who *)
(* may do what with it.  Module Connector implements it.                   *)
(*                                                                         *)
(* A handle is opened by one client, who alone knows it until it is        *)
(* published; from then on any client with its purpose may take it.  It is *)
(* retired by a client that took it and has opened a successor, or it is   *)
(* withdrawn with the instance.  Nothing is said about a published handle  *)
(* that nobody retires.                                                    *)
(***************************************************************************)
CONSTANTS
    DB,        \* the handles there can be
    NoDB,      \* no handle
    Clients,   \* those who use handles
    Strict,    \* clients that insist on a handle of their purpose
    Purposes,  \* what a handle may be opened for
    Plain,     \* the purpose of the first handle
    Evicts     \* handles may be withdrawn one by one

VARIABLES
    life,         \* of a handle
    purpose,      \* what it was opened for
    wants,        \* what a client needs a handle for
    took,         \* the published handle a client began with
    runs,         \* the handle it runs on
    fetches,      \* the one it is about to publish
    withdrawing   \* all handles are being withdrawn

vars == <<life, purpose, wants, took, runs, fetches, withdrawing>>

Init ==
    /\ \E b \in DB : life = [d \in DB |-> IF d = b THEN "open" ELSE "unopened"]
    /\ purpose = [d \in DB |-> Plain]
    /\ wants = [c \in Clients |-> Plain]
    /\ took = [c \in Clients |-> NoDB]
    /\ runs = [c \in Clients |-> NoDB]
    /\ fetches = [c \in Clients |-> NoDB]
    /\ withdrawing = FALSE

Idle(c) == took[c] = NoDB /\ runs[c] = NoDB /\ fetches[c] = NoDB

Wants(c) == \E p \in Purposes : wants' = [wants EXCEPT ![c] = p]

Ask(c) ==
    /\ Idle(c) /\ Wants(c)
    /\ UNCHANGED <<life, purpose, took, runs, fetches, withdrawing>>

\* A closed handle is found only while its successor is on the way, or while
\* all handles are being withdrawn.
Findable(d) ==
    \/ life[d] = "open"
    \/ life[d] = "closed" /\ withdrawing
    \/ life[d] = "closed" /\ \E c \in Clients : took[c] = d /\ fetches[c] # NoDB

Take(c, d) ==
    /\ Idle(c) /\ Findable(d)
    /\ Wants(c) \/ UNCHANGED wants
    /\ c \in Strict => purpose[d] = wants'[c]
    /\ took' = [took EXCEPT ![c] = d]
    /\ runs' = [runs EXCEPT ![c] = d]
    /\ UNCHANGED <<life, purpose, fetches, withdrawing>>

\* A client without a handle, or tired of the one it runs on, opens one.
Open(c, d) ==
    /\ fetches[c] = NoDB /\ life[d] = "unopened"
    /\ life' = [life EXCEPT ![d] = "fresh"]
    /\ purpose' = [purpose EXCEPT ![d] = wants[c]]
    /\ fetches' = [fetches EXCEPT ![c] = d]
    /\ runs' = [runs EXCEPT ![c] = NoDB]
    /\ UNCHANGED <<wants, took, withdrawing>>

\* Only a client that holds the successor closes a handle, the one it took.
Retire(c) ==
    /\ fetches[c] # NoDB /\ took[c] # NoDB
    /\ life' = [life EXCEPT ![took[c]] = "closed"]
    /\ UNCHANGED <<purpose, wants, took, runs, fetches, withdrawing>>

Publish(c) ==
    /\ fetches[c] # NoDB
    /\ life' = [life EXCEPT ![fetches[c]] = "open"]
    /\ runs' = [runs EXCEPT ![c] = fetches[c]]
    /\ took' = [took EXCEPT ![c] = IF @ = NoDB THEN fetches[c] ELSE @]
    /\ fetches' = [fetches EXCEPT ![c] = NoDB]
    /\ UNCHANGED <<purpose, wants, withdrawing>>

Release(c) ==
    /\ runs' = [runs EXCEPT ![c] = NoDB]
    /\ UNCHANGED <<life, purpose, wants, took, fetches, withdrawing>>

\* A fresh handle is out of reach for a withdrawal.
Withdraw(d) ==
    /\ withdrawing \/ Evicts
    /\ life[d] = "open"
    /\ life' = [life EXCEPT ![d] = "closed"]
    /\ UNCHANGED <<purpose, wants, took, runs, fetches, withdrawing>>

Withdrawal ==
    /\ withdrawing' = ~withdrawing
    /\ UNCHANGED <<life, purpose, wants, took, runs, fetches>>

Next ==
    \/ \E c \in Clients :
        \/ Ask(c) \/ Retire(c) \/ Publish(c) \/ Release(c)
        \/ \E d \in DB : Take(c, d) \/ Open(c, d)
    \/ \E d \in DB : Withdraw(d)
    \/ Withdrawal

Spec == Init /\ [][Next]_vars

=============================================================================
