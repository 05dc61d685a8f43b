----------------------------- MODULE MCShowLookup -----------------------------
(* Two callers and two ids, so that sources may agree or not, callers may    *)
(* share a flight or come after it, and one may ensure what another looks up. *)
EXTENDS ShowLookup
===============================================================================
