---------------------------- MODULE MCPdfiumPool ----------------------------
(* Instances of PdfiumPool for TLC. *)
EXTENDS PdfiumPool

OneSlot == 1..1
=============================================================================
