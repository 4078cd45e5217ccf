----------------------------- MODULE MCSettings -----------------------------
EXTENDS Settings
TwoDisplays == <<"left", "right">>
=============================================================================
