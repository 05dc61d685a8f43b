---------------------------- MODULE MCImportPool ----------------------------
(* Three shows, of which two share a title, looked up by two workers and     *)
(* imported by two.  They resolve to up to three ids or to none, so some of  *)
(* them may be duplicates, and any of the ids may be on the account.  Only   *)
(* one title is shown, so one too many may be in work.                       *)
EXTENDS ImportPool

Titles == <<1, 2, 2>>
=============================================================================
