----------------------------- MODULE MCMessage ------------------------------
EXTENDS Message

MCChecked == DOMAIN KindOf
MCRelays  == 1 .. 3
=============================================================================
