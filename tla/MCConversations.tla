---------------------------- MODULE MCConversations ----------------------------
EXTENDS Conversations
CONSTANTS c, d
=============================================================================
