----------------------------- MODULE MCApproval -----------------------------
(***************************************************************************)
(* Approval with employees of different managers, of whom LDAP lists one   *)
(* as an employee, one as something else and one not at all, a contractor  *)
(* and a customer's own login.  Customers and processes of the server are  *)
(* model values that a safety run may exchange.                            *)
(***************************************************************************)
EXTENDS Approval

MCManager == [p \in Staff \cup Contractors |->
                CASE p = "ann" -> "mia" [] p = "eve" -> "moe" [] OTHER -> "max"]

MCSymmetry == Permutations(Customers) \cup Permutations(Servers)
=============================================================================
