------------------------------- MODULE MCCliFiles ------------------------------
EXTENDS CliFiles
=============================================================================
