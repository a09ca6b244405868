----------------------------- MODULE MCXLSemaPhore -----------------------------
EXTENDS XLSemaPhore

\* The arguments the program uses: Create(0) (XLEventQueue.cpp:35), Create(0, 1)
\* (XLSimpleThreads.cpp:42, XLServer.cpp:22) and Create(1, 1) (XLAlarm.cpp:10).
MCCreations == {<<0, 0>>, <<0, 1>>, <<1, 1>>}
================================================================================
