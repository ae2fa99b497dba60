--------------------------- MODULE MCImportWizard ---------------------------
(* Small instances of ImportWizard for TLC.                                *)
EXTENDS ImportWizard
=============================================================================
