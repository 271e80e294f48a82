SPECIFICATION Spec
CONSTANTS
    None = None
    People <- Employees
    Departments <- Units
    DepartmentOf <- WorksIn
    Coded = {1, 2}
    Actors <- Askers
    Messages <- Texts
    DepartmentLabel <- Labels
INVARIANTS
    ReadIsOfTheLastNamed
    DepartmentWasNamed
