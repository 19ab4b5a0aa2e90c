------------------------------ MODULE MCCsvExport ------------------------------
(* One meter with two loggers, three intervals and a window of one. *)
EXTENDS CsvExport

CONSTANTS f1, h1, h2
=============================================================================
