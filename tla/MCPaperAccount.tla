--------------------------- MODULE MCPaperAccount ---------------------------
(***************************************************************************)
(* Money for three shares and five orders that are not settled: a buy, the *)
(* limit, its replacement and a market sell, with one to spare.            *)
(***************************************************************************)
EXTENDS PaperAccount

\* Everything but failures, without and with re-entries; crashes; failing writes of the
\* database, with starts and exits.
Scenarios == {{"noema", "missed", "resize", "rsi", "restart"},
              {"amo", "noema", "missed", "resize", "rsi", "restart"},
              {"reentry", "missed", "resize", "rsi", "restart"},
              {"amo", "reentry", "rsi", "restart"},
              {"crash", "resize", "rsi"}, {"crash", "amo", "missed"},
              {"dbfails", "reentry", "restart"}, {"dbfails", "amo", "rsi"},
              {"norow", "reentry", "rsi"}, {"norow", "restart", "resize"}}
=============================================================================
