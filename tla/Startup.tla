------------------------------- MODULE Startup -------------------------------
(***************************************************************************)
(* The life of the one process: main.ts listens only after PrismaService   *)
(* has connected, in at most RETRIES attempts, and passed a health check;  *)
(* when either throws, the process ends.  Whoever starts it again is       *)
(* external.                                                               *)
(***************************************************************************)
EXTENDS Naturals

CONSTANT RETRIES \* connection attempts (5)

VARIABLES
  phase,  \* "down", "connecting", "checking" or "up"
  attempt \* of connectWithRetry, 0 outside it

startupVars == <<phase, attempt>>

Phases == {"down", "connecting", "checking", "up"}

StartupInit == phase = "down" /\ attempt = 0

Boot == phase = "down" /\ phase' = "connecting" /\ attempt' = 1

Connect == phase = "connecting" /\ phase' = "checking" /\ attempt' = 0

ConnectFailsOnceMore ==
  /\ phase = "connecting"
  /\ IF attempt > RETRIES THEN phase' = "down" /\ attempt' = 0
                          ELSE attempt' = attempt + 1 /\ UNCHANGED phase
(* The last attempt throws, the others wait delayMs and try again. *)
ConnectFails ==
  /\ phase = "connecting"
  /\ IF attempt = RETRIES THEN phase' = "down" /\ attempt' = 0
                          ELSE attempt' = attempt + 1 /\ UNCHANGED phase

(* healthCheck, then app.listen *)
HealthCheck == phase = "checking" /\ phase' = "up" /\ UNCHANGED attempt
HealthCheckFails == phase = "checking" /\ phase' = "down" /\ UNCHANGED attempt

Exit == phase # "down" /\ phase' = "down" /\ attempt' = 0

StartupTypeOK == phase \in Phases /\ attempt \in 0..RETRIES
=============================================================================
