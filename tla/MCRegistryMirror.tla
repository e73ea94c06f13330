-------------------------- MODULE MCRegistryMirror --------------------------
EXTENDS RegistryMirror
=============================================================================
