-------------------------- MODULE MCProviderClaim --------------------------
EXTENDS ProviderClaim, TLC
=============================================================================
