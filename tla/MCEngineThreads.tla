--------------------------- MODULE MCEngineThreads ---------------------------
EXTENDS EngineThreads, TLC

CONSTANTS w1, w2, a, b, c, d

AnyToRt == <<"fromWorld", "fastToEngine">>

\* A thread sends two functions to the rt-thread and another thread one to the
\* fast-nrt-thread: one of the three may find the FIFO full.  The rt-thread
\* sends a function to one of the other threads of the engine, back to itself
\* and to the other one.
MCRoute  == a :> AnyToRt @@ b :> AnyToRt @@ c :> <<"fromWorld">>
            @@ d :> <<"fromEngine", "toEngine", "fastFromEngine">>
MCCaller == a :> w1 @@ b :> w1 @@ c :> w2 @@ d :> "rt"
=============================================================================
