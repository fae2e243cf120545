SPECIFICATION Spec
CONSTANTS
  None = None
  Groups = {"Outer", "Hook"}
  Hooks = {"Hook"}
  Targets = {"3.0", "3.1"}
  Resources <- MCResources
  Actions <- MCActions
  MaxElements = 6
INVARIANTS
  NoActionLost
  ParamsStayHome
  ParamsUnique
  GroupsObeyed
  DuplicatesReported
