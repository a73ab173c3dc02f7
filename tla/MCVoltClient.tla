---------------------------- MODULE MCVoltClient ----------------------------
EXTENDS VoltClientProps, TLC

=============================================================================
