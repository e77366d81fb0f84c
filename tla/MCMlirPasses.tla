---------------------------- MODULE MCMlirPasses ----------------------------
EXTENDS MlirPasses

\* Negative numbers cannot be written in a configuration file.
MCExternals == {-1}
=============================================================================
