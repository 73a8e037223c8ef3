\* The database goes away after the start and stays away.
SPECIFICATION FairSpec
PROPERTY ReadyFollowsDatabase
