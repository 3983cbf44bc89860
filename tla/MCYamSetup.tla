----------------------------- MODULE MCYamSetup -----------------------------
(* A legacy pair, and two cells of which one has an arm of the other.        *)
EXTENDS YamSetup

MCLegacyConfigs == {"legacy"}
MCCellConfigs == {"both", "one"}
MCArmsOf == [legacy |-> {"pair"}, both |-> {"left", "right"}, one |-> {"left"}]
=============================================================================
