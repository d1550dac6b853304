----------------------------- MODULE MC_PdfViewer ------------------------------
(* Two cards, one good file of one page and one that does not load.          *)
EXTENDS PdfViewer, TLC

CONSTANTS report, secret

MCOutcome == report :> "good" @@ secret :> "encrypted"
OneGood   == report :> "good"
===============================================================================
