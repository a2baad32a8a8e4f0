---------------------------- MODULE MCPhoneSession ----------------------------
(* Requests that meet an expired access token together.                      *)
EXTENDS PhoneSession

CONSTANTS r1, r2, r3
===============================================================================
