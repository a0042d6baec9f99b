------------------------------ MODULE Platforms ------------------------------
(***************************************************************************)
(* The program with the console of the platform that make was called for:  *)
(* Spike's host interface, or a UART.                                      *)
(***************************************************************************)
EXTENDS Console, Uart

\* A trap while the program prints, and an exit code other than 0, are looked at where
\* they make a difference: the first on Spike, the second elsewhere.
PlatformInit ==
  /\ PrintingInit /\ ConsoleInit /\ UartInit
  /\ IF PLAT = "spike" THEN code = 0 ELSE trap.at = {}

OnSpike(A) == A /\ UNCHANGED <<PLAT, text, code, uvars>>
OnUart(A)  == A /\ UNCHANGED <<PLAT, text, code, cvars>>

PlatformNext == OnSpike(ConsoleNext) \/ OnUart(UartNext)

pfvars == <<pvars, cvars, uvars>>

\* The hart executes, the host polls, and the device sends; no trap has to come.
PlatformSpec ==
  /\ PlatformInit /\ [][PlatformNext]_pfvars
  /\ WF_pfvars(OnSpike(ProgramStep)) /\ WF_pfvars(OnSpike(HostTakes)) /\ WF_pfvars(OnSpike(HostAnswers))
  /\ WF_pfvars(OnUart(PutStep)) /\ WF_pfvars(OnUart(DeviceSends))

\* The buffer, the cells and the FIFO hold what their declarations allow.
PlatformTypeOK ==
  /\ ConsoleTypeOK
  /\ next \in 1..Len(text) + 1 /\ cr \in BOOLEAN /\ called \in BOOLEAN
  /\ Len(fifo) <= FifoSize /\ verdict \in -1..127
===============================================================================
