----------------------------- MODULE MCAccounts -----------------------------
(* A small instance of Accounts for TLC.  Ann is verified and logged in,   *)
(* bob has only registered; carl and carla register with one email, carla  *)
(* and dora under one username.  Everybody shares an address.              *)
(* A script is what clients send in one behaviour, in any order.           *)
EXTENDS Accounts

EmailOf == [ann |-> "a@x", bob |-> "b@x", carl |-> "c@x", carla |-> "c@x", dora |-> "d@x"]
NameOf == [ann |-> "ann", bob |-> "bob", carl |-> "carl", carla |-> "cc", dora |-> "cc"]

Subject ==
  [resend1 |-> "b@x", resend2 |-> "b@x", reset |-> "a@x",
   login1 |-> "ann", login2 |-> "ann", login3 |-> "a@x", login4 |-> "bob",
   verify |-> "bob", verifyResent |-> "resend1", confirm |-> "reset",
   logout |-> "ann", visit |-> "ann"]

(* The third login presents the password that the confirmation sets.       *)
Presented == [login1 |-> "ann", login2 |-> "ann", login3 |-> "confirm", login4 |-> "bob"]

AccountOf ==
  [carl |-> "register c", carla |-> "register c", dora |-> "register d",
   resend1 |-> "resend b", resend2 |-> "resend b", reset |-> "reset a",
   login1 |-> "login ann", login2 |-> "login ann", login3 |-> "login a",
   login4 |-> "login bob"]
AddressOf ==
  [carl |-> "register here", carla |-> "register here", dora |-> "register here",
   resend1 |-> "resend here", resend2 |-> "resend here", reset |-> "reset here",
   login1 |-> "login here", login2 |-> "login here", login3 |-> "login here",
   login4 |-> "login here"]
Buckets == {AccountOf[r] : r \in Limited} \cup {AddressOf[r] : r \in Limited}

(* A login is counted under the name it gives, an email or a username.     *)
(* One login and two other attempts per account, address and unit of time; *)
(* resends are counted for two units.                                      *)
Limits == [k \in Buckets |-> IF k \in {"login ann", "login here"} THEN 1 ELSE 2]
Windows == [k \in Buckets |-> IF k \in {"resend b", "resend here"} THEN 2 ELSE 1]

ClientScripts ==
  { {"carl", "carla"}, {"carla", "dora"},
    {"resend1", "resend2"}, {"resend1", "verify"}, {"resend1", "verifyResent"},
    {"reset", "confirm", "login3"},
    {"login1", "logout", "visit"},
    {"login1", "login2"}, {"login1", "login4"}, {"login1", "resend1"} }
=============================================================================
