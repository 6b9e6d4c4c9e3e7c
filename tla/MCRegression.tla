---------------------------- MODULE MCRegression ----------------------------
EXTENDS Regression, MCSnapshots
=============================================================================
