--------------------------- MODULE MCNetworkTool ---------------------------
EXTENDS NetworkTestHelper

\* One or more valid answers, and a refused one, for each command.
MCLines(cmd) ==
  CASE cmd = "Begin" -> {"1", "2", "3"}
    [] cmd = "ChooseExistingNetwork" -> {"1", "2", "3"}
    [] cmd = "ChooseTestRootDir" -> {"other"}
    [] cmd \in {"ClearTestRootDir", "CreateTestRootDir"} -> {"y", "n", "1"}
    [] cmd \in {"ChoosePathToBootstrap", "ChoosePathToVault"} -> {"other", "vault"}
    [] cmd = "ChooseRunningPort" -> {"1024"}
    [] cmd = "ChooseVaultManagerPort" -> {"1024", "65536"}
    [] cmd = "EnterVlogSessionId" -> {"session"}
    [] cmd = "ChooseToRevealHostname" -> {"Y", "N"}
    [] cmd = "ChooseVaultCount" -> {"2"}
    [] cmd = "ChooseTest" -> {"1", "100", "101"}
    [] OTHER -> {}

=============================================================================
