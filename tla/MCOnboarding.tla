---------------------------- MODULE MCOnboarding ----------------------------
EXTENDS Onboarding

CONSTANTS s1, s2

(* The list of the code, without two of its three stubs.                   *)
Steps == <<"credentials_validated", "paper_environment_confirmed",
           "account_synchronized", "portfolio_loaded", "assets_synchronized",
           "ai_agents_ready">>

ConfigurationSteps == {"paper_environment_confirmed"}
AccountSteps == {"credentials_validated", "account_synchronized"}
StoredKeySteps ==
  {"account_synchronized", "portfolio_loaded", "assets_synchronized"}
=============================================================================
