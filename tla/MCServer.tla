-------------------------------- MODULE MCServer --------------------------------
(***************************************************************************)
(* Small instances of Server.                                              *)
(***************************************************************************)
EXTENDS Server

CONSTANTS q1, q2, q3, q4, alice, bob, right, wrong, mail

\* An empty database, and one with an account that was made without an e-mail.
MCBefore == {<<>>, <<[name |-> alice, password |-> right, email |-> NoEmail]>>}

Ask(kind) == [kind |-> kind, name |-> alice, password |-> right, email |-> NoEmail]
Guess     == [kind |-> "login", name |-> alice, password |-> wrong, email |-> NoEmail]
SignUp(name, email) ==
    [kind |-> "register", name |-> name, password |-> right, email |-> email]

Scenario(a, b, c, d) ==
    [q \in Requests |-> CASE q = q1 -> a [] q = q2 -> b [] q = q3 -> c [] q = q4 -> d]

\* Two rooms at once and a visitor of one; somebody who guesses the password, and a
\* connection; three registrations, two of them with one name and two with one e-mail, and
\* one that leaves it out.
MCScenarios ==
    { Scenario(Ask("login"), Ask("create"), Ask("create"), Ask("join")),
      Scenario(Ask("login"), Ask("create"), Guess, Ask("connect")),
      Scenario(SignUp(alice, mail), Ask("login"), SignUp(bob, mail), SignUp(bob, NoEmail)) }
================================================================================
