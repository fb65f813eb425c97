----------------------------- MODULE MCAlertTest ----------------------------
EXTENDS AlertTest
=============================================================================
