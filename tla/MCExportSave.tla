----------------------------- MODULE MCExportSave -----------------------------
(* Two exports of two shows each, in any order, on a pool that has enough    *)
(* connections for both or one too few.  An episode is listed twice by the   *)
(* first show, and one by both of them.                                      *)
EXTENDS ExportSave

Lists == [1..2 -> Series \cup {Unknown}]

Numbered(season, number) == [season |-> season, number |-> number]

Content == <<<<Numbered(1, 1), Numbered(1, 2), Numbered(1, 1)>>, <<Numbered(1, 2), Numbered(0, 1)>>>>
================================================================================
