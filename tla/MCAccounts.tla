------------------------------- MODULE MCAccounts ------------------------------
(***************************************************************************)
(* Small instances of Accounts for TLC.                                    *)
(***************************************************************************)
EXTENDS Accounts, TLC

CONSTANTS u1, u2, n1, n2

ManageUsersAndRoles == {"auth.manage_users", "auth.manage_roles"}

AllOrNone == {{}, ManageUsersAndRoles}
Interchangeable == Permutations(Session)

(* The seeded administrator; or two of the accounts there from the start.  *)
OneAccount == [u \in User |-> IF u = u1 THEN n1 ELSE None]
TwoAccounts == [u \in User |-> IF u = u1 THEN n1 ELSE IF u = u2 THEN n2 ELSE None]

================================================================================
