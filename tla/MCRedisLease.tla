---------------------------- MODULE MCRedisLease ----------------------------
EXTENDS RedisLease
=============================================================================
