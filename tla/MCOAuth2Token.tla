---------------------------- MODULE MCOAuth2Token ----------------------------
EXTENDS OAuth2Token
===============================================================================
