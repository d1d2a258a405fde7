-------------------------- MODULE AccountLifecycle --------------------------
(***************************************************************************)
(* What the tables users, user_identities and email_verification_tokens    *)
(* promise about an e-mail address: it is taken once, gets a password      *)
(* once, is verified at some point, and never goes back.  Its owner cannot *)
(* change the password (there is no such endpoint); the seed command can.  *)
(***************************************************************************)
CONSTANTS Email, Password, NoPassword

VARIABLES
    stage,  \* "free", "reserved" (a user row), "unverified" or "verified"
    word    \* the password of the address

vars == <<stage, word>>

Init ==
    /\ stage = [e \in Email |-> "free"]
    /\ word = [e \in Email |-> NoPassword]

Move(e, from, to) ==
    /\ stage[e] \in from
    /\ stage' = [stage EXCEPT ![e] = to]

\* The user row is written.
Reserve(e) == Move(e, {"free"}, "reserved") /\ UNCHANGED word

\* A registration writes the identity.
Establish(e, w) ==
    /\ Move(e, {"reserved"}, "unverified")
    /\ word' = [word EXCEPT ![e] = w]

\* The owner of the mailbox presents the token that was mailed there.
Verify(e) == Move(e, {"unverified", "verified"}, "verified") /\ UNCHANGED word

\* The seed command sets the password and vouches for the address.
Seed(e, w) ==
    /\ Move(e, {"reserved", "unverified", "verified"}, "verified")
    /\ word' = [word EXCEPT ![e] = w]

Next ==
    \E e \in Email :
        \/ Reserve(e)
        \/ Verify(e)
        \/ \E w \in Password : Establish(e, w) \/ Seed(e, w)

Spec == Init /\ [][Next]_vars
=============================================================================
