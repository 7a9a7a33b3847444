---------------------------- MODULE OnboardingMC ----------------------------
EXTENDS Onboarding

(* The unit's own call, with a file; a file that asks for the kernel's     *)
(* arguments; a call that asks for them; one with a flag the first parse   *)
(* does not know.                                                          *)
File == {"service", "mac", "autoDetect"}
Calls == {[flags |-> {}, file |-> File \cup {"extraHosts"}, kernel |-> {}],
          [flags |-> {}, file |-> File \cup {"kernelArgs", "disableInteractive"}, kernel |-> {"mac"}],
          [flags |-> {"kernelArgs"}, file |-> File, kernel |-> {"mac"}],
          [flags |-> {"service", "mac"}, file |-> {}, kernel |-> {}]}
=============================================================================
