---------------------------- MODULE MCJitPipeline ----------------------------
EXTENDS JitPipeline

\* Negative numbers cannot be written in a configuration file.
MCExternals == {-2, -1}
=============================================================================
