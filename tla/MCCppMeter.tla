------------------------------ MODULE MCCppMeter ------------------------------
\* Instances of CppMeter for TLC.
EXTENDS CppMeter

=============================================================================
