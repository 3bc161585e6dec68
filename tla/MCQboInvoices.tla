--------------------------- MODULE MCQboInvoices ---------------------------
(* Instances of QboInvoices for TLC.                                       *)
EXTENDS QboInvoices
=============================================================================
